---- MODULE Spec2Model ----
(***************************************************************************)
(* Word-timing alignment (alignment.py) and playback synchronisation       *)
(* (sync.py) of the readaloud library reader.                              *)
(*                                                                         *)
(* Times are Python floats in the source; here they are exact rationals    *)
(* <<n, d>> with d > 0, kept in lowest terms.  Python's None is the pair   *)
(* <<0, 0>>.  Strings are sequences of one-character strings.              *)
(***************************************************************************)
EXTENDS Integers, Sequences, FiniteSets, TLC

(***************************************************************************)
(* Exact rational arithmetic                                               *)
(***************************************************************************)
Abs(n) == IF n < 0 THEN -n ELSE n

RECURSIVE Gcd(_, _)
Gcd(a, b) == IF b = 0 THEN a ELSE Gcd(b, a % b)

\* the rational n/d (d # 0) in lowest terms with a positive denominator
Rat(n, d) ==
    LET g == Gcd(Abs(n), Abs(d))
        s == IF d < 0 THEN -1 ELSE 1
    IN  <<(s * n) \div g, (s * d) \div g>>

None == <<0, 0>>
IsNone(x) == x[2] = 0

Zero == <<0, 1>>
One == <<1, 1>>
Half == <<1, 2>>
FromInt(n) == <<n, 1>>

RAdd(a, b) == Rat(a[1] * b[2] + b[1] * a[2], a[2] * b[2])
RSub(a, b) == Rat(a[1] * b[2] - b[1] * a[2], a[2] * b[2])
RMul(a, b) == Rat(a[1] * b[1], a[2] * b[2])
RDiv(a, b) == Rat(a[1] * b[2], a[2] * b[1])
RLe(a, b) == a[1] * b[2] <= b[1] * a[2]
RLt(a, b) == a[1] * b[2] < b[1] * a[2]
\* Python's min(a, b) and max(a, b)
RMin(a, b) == IF RLt(b, a) THEN b ELSE a
RMax(a, b) == IF RLt(a, b) THEN b ELSE a

(***************************************************************************)
(* Characters and strings                                                  *)
(***************************************************************************)
\* the characters of the regex class \w that the inputs use
WordChars == {"a", "b", "c", "s", "t", "x", "A", "B", "C"}
Apostrophe == "'"
Whitespace == {" ", "\n"}

\* str.lower() on one character
LowerChar(c) ==
    CASE c = "A" -> "a"
      [] c = "B" -> "b"
      [] c = "C" -> "c"
      [] OTHER -> c

Lower(s) == [i \in 1..Len(s) |-> LowerChar(s[i])]

\* str.strip(chars): drop leading and trailing characters that are in chars
RECURSIVE LStrip(_, _)
LStrip(s, chars) ==
    IF s # <<>> /\ Head(s) \in chars THEN LStrip(Tail(s), chars) ELSE s

RECURSIVE RStrip(_, _)
RStrip(s, chars) ==
    IF s # <<>> /\ s[Len(s)] \in chars
    THEN RStrip(SubSeq(s, 1, Len(s) - 1), chars)
    ELSE s

Strip(s, chars) == RStrip(LStrip(s, chars), chars)

\* Python's `a in b` on strings
IsSubstring(a, b) ==
    \E k \in 0..(Len(b) - Len(a)) : SubSeq(b, k + 1, k + Len(a)) = a

(***************************************************************************)
(* _extract_words: re.findall(r'\b[\w\']+\b', text)                        *)
(***************************************************************************)
\* is the character at position p a \w character (FALSE outside the text)
IsWordAt(text, p) == p \in 1..Len(text) /\ text[p] \in WordChars

\* \b holds between positions p-1 and p
BoundaryBefore(text, p) == IsWordAt(text, p - 1) # IsWordAt(text, p)

\* the regex class [\w']
InTokenClass(c) == c \in WordChars \cup {Apostrophe}

\* where a match that starts at p ends: [\w']+ is greedy and gives characters
\* back until \b holds after it; 0 when no match starts at p
TokenEnd(text, p) ==
    LET ends == {e \in p..Len(text) :
                    /\ \A k \in p..e : InTokenClass(text[k])
                    /\ BoundaryBefore(text, e + 1)}
    IN  IF BoundaryBefore(text, p) /\ ends # {}
        THEN CHOOSE e \in ends : \A f \in ends : f <= e
        ELSE 0

\* the positions where findall finds a match: a match can start there, and no
\* match that starts earlier runs over it (the scan resumes after each match)
MatchStarts(text) ==
    {p \in 1..Len(text) :
        /\ TokenEnd(text, p) # 0
        /\ \A q \in 1..(p - 1) :
               (\A k \in q..p : InTokenClass(text[k])) => TokenEnd(text, q) < p}

\* the matches in text order
ExtractWords(text) ==
    LET starts == MatchStarts(text)
        IsStart(p) == p \in starts
        ordered == SelectSeq([p \in 1..Len(text) |-> p], IsStart)
    IN  [j \in 1..Len(ordered) |->
            SubSeq(text, ordered[j], TokenEnd(text, ordered[j]))]

(***************************************************************************)
(* _words_match                                                            *)
(***************************************************************************)
MatchStripChars == {".", ",", "!", "?", ";", ":", "'", "\"", "(", ")", "-"}
MinContainLen == 2

WordsMatch(word1, word2) ==
    LET w1 == Strip(word1, MatchStripChars)
        w2 == Strip(word2, MatchStripChars)
    IN  \/ word1 = word2
        \/ w1 = w2
        \/ /\ Len(w1) > MinContainLen
           /\ Len(w2) > MinContainLen
           /\ (IsSubstring(w1, w2) \/ IsSubstring(w2, w1))

(***************************************************************************)
(* Bounds and input sets                                                   *)
(***************************************************************************)
MaxSentences == 2
MaxTranscript == 2

TextAxb == <<"A", " ", "x", " ", "b", ".">>
TextXCats == <<"x", " ", "c", "a", "t", "s">>
TextNoWords == <<".">>
Texts == {TextAxb, TextXCats, TextNoWords}

\* words as the transcription engine spells them
EngineWords == {<<" ", "a">>, <<"B", ",">>, <<"c", "a", "t">>}
Durations == {0, 1, 5}

SeqsUpTo(S, n) == UNION {[1..k -> S] : k \in 0..n}

SentenceLists ==
    {[i \in 1..Len(ts) |-> [index |-> i - 1, text |-> ts[i]]] :
        ts \in SeqsUpTo(Texts, MaxSentences)}

\* the engine's records for the words ws, in time order: each word lasts one
\* second and a pause of one second follows it
Spoken(ws) ==
    [i \in 1..Len(ws) |->
        [word |-> ws[i],
         start |-> FromInt(2 * (i - 1)),
         end |-> FromInt(2 * i - 1)]]

\* n times " a"
Fillers(n) == [i \in 1..n |-> <<" ", "a">>]

\* transcripts long enough for the search window to end before the transcript
\* does, or to start after index 0: "cat" at index 11 and at index 12, and
\* "a" at index 5 after a "B," at index 0
LongTranscripts ==
    {Spoken(<<<<"B", ",">>>> \o Fillers(10) \o <<<<"c", "a", "t">>>>),
     Spoken(Fillers(12) \o <<<<"c", "a", "t">>>>),
     Spoken(<<<<"B", ",">>, <<"c", "a", "t">>, <<"c", "a", "t">>,
              <<"c", "a", "t">>, <<"c", "a", "t">>, <<" ", "a">>>>)}

Transcripts ==
    {Spoken(ws) : ws \in SeqsUpTo(EngineWords, MaxTranscript)}
        \cup LongTranscripts

(***************************************************************************)
(* map_words_to_sentences                                                  *)
(***************************************************************************)
DefaultScore == <<9, 10>>
NoConfidence == Zero
InterpolatedConfidence == Half
EstimateConfidence == <<3, 10>>

\* the flattened engine words: word stripped of whitespace, score defaulted
FlattenWords(words) ==
    [i \in 1..Len(words) |->
        [word |-> Strip(words[i].word, Whitespace),
         start |-> words[i].start,
         end |-> words[i].end,
         confidence |-> DefaultScore]]

EngineStripChars == {".", ",", "!", "?", ";", ":", "'", "\""}
LookBack == 5
LookAhead == 10
DefaultSentenceSeconds == 2

SearchStart(widx) == IF widx - LookBack > 0 THEN widx - LookBack ELSE 0

\* variant of SearchEnd that looks a fixed number of words ahead, whatever the
\* length of the sentence
SearchEndFixedAhead(widx, nSentWords, nAll) ==
    IF nAll < widx + LookAhead THEN nAll ELSE widx + LookAhead

SearchEnd(widx, nSentWords, nAll) ==
    IF nAll < widx + nSentWords + LookAhead
    THEN nAll
    ELSE widx + nSentWords + LookAhead

\* does the engine word at 0-based index i match the sentence word
Accepts(sentWord, allWords, i) ==
    WordsMatch(Lower(sentWord),
               Strip(Lower(allWords[i + 1].word), EngineStripChars))

\* an index that is None
NoIndex == -1

\* best_match_idx: the first accepted 0-based index of the window, or None
BestMatchIdx(sentWord, widx, nSentWords, allWords) ==
    LET window == SearchStart(widx)..(SearchEnd(widx, nSentWords, Len(allWords)) - 1)
        hits == {i \in window : Accepts(sentWord, allWords, i)}
    IN  IF hits = {} THEN NoIndex ELSE CHOOSE i \in hits : \A j \in hits : i <= j

(***************************************************************************)
(* interpolate_missing_timestamps                                          *)
(***************************************************************************)
\* known_indices: the 1-based positions of the words whose start is not None
KnownIndices(words) == {i \in 1..Len(words) : ~IsNone(words[i].start)}

SetMax(S) == CHOOSE x \in S : \A y \in S : y <= x
SetMin(S) == CHOOSE x \in S : \A y \in S : x <= y

\* variant of EvenSlot that leaves one slot of the span free at its end
EvenSlotShort(sentStart, sentEnd, n, i) ==
    LET wordDuration == RDiv(RSub(sentEnd, sentStart), FromInt(n + 1))
    IN  <<RAdd(sentStart, RMul(FromInt(i - 1), wordDuration)),
          RAdd(sentStart, RMul(FromInt(i), wordDuration))>>

\* no word of the sentence is known: word i (1-based) of an even split of
\* the sentence span
EvenSlot(sentStart, sentEnd, n, i) ==
    LET wordDuration == RDiv(RSub(sentEnd, sentStart), FromInt(n))
    IN  <<RAdd(sentStart, RMul(FromInt(i - 1), wordDuration)),
          RAdd(sentStart, RMul(FromInt(i), wordDuration))>>

\* variant of InteriorSlot that packs the gap words from prev's end, one slot
\* each, instead of shifting them by half a slot
InteriorSlotPacked(prevEnd, nextStart, prevIdx, nextIdx, i) ==
    LET gapWords == nextIdx - prevIdx - 1
        wordDuration == RDiv(RSub(nextStart, prevEnd), FromInt(gapWords + 1))
        offset == FromInt(i - prevIdx)
    IN  <<RAdd(prevEnd, RMul(RSub(offset, One), wordDuration)),
          RAdd(prevEnd, RMul(offset, wordDuration))>>

\* variant of InteriorSlot that divides the gap by the number of gap words
\* alone
InteriorSlotWide(prevEnd, nextStart, prevIdx, nextIdx, i) ==
    LET gapWords == nextIdx - prevIdx - 1
        wordDuration == RDiv(RSub(nextStart, prevEnd), FromInt(gapWords))
        offset == FromInt(i - prevIdx)
    IN  <<RAdd(prevEnd, RMul(RSub(offset, Half), wordDuration)),
          RAdd(prevEnd, RMul(RAdd(offset, Half), wordDuration))>>

\* both neighbours known: interpolate between two known points
InteriorSlot(prevEnd, nextStart, prevIdx, nextIdx, i) ==
    LET gapWords == nextIdx - prevIdx - 1
        wordDuration == RDiv(RSub(nextStart, prevEnd), FromInt(gapWords + 1))
        offset == FromInt(i - prevIdx)
    IN  <<RAdd(prevEnd, RMul(RSub(offset, Half), wordDuration)),
          RAdd(prevEnd, RMul(RAdd(offset, Half), wordDuration))>>

\* variant of ForwardSlot that counts the slots from prev's start
ForwardSlotFromStart(prevWord, prevIdx, i) ==
    LET avgDuration == RSub(prevWord.end, prevWord.start)
        start == RAdd(prevWord.start, RMul(FromInt(i - prevIdx - 1), avgDuration))
    IN  <<start, RAdd(start, avgDuration)>>

\* only an earlier neighbour known: extrapolate forward
ForwardSlot(prevWord, prevIdx, i) ==
    LET avgDuration == RSub(prevWord.end, prevWord.start)
        start == RAdd(prevWord.end, RMul(FromInt(i - prevIdx - 1), avgDuration))
    IN  <<start, RAdd(start, avgDuration)>>

\* only a later neighbour known: extrapolate backward
BackwardSlot(nextWord, nextIdx, i) ==
    LET avgDuration == RSub(nextWord.end, nextWord.start)
        end == RSub(nextWord.start, RMul(FromInt(nextIdx - i - 1), avgDuration))
    IN  <<RSub(end, avgDuration), end>>

\* variant of GapSlot without the two extrapolation branches
GapSlotInteriorOnly(words, known, i) ==
    LET before == {k \in known : k < i}
        after == {k \in known : k > i}
    IN  IF before # {} /\ after # {}
        THEN InteriorSlot(words[SetMax(before)].end, words[SetMin(after)].start,
                          SetMax(before), SetMin(after), i)
        ELSE <<None, None>>

\* the (start, end) an unresolved word i gets before the clamp
GapSlot(words, known, i) ==
    LET before == {k \in known : k < i}
        after == {k \in known : k > i}
    IN  IF before # {} /\ after # {}
        THEN InteriorSlot(words[SetMax(before)].end, words[SetMin(after)].start,
                          SetMax(before), SetMin(after), i)
        ELSE IF before # {}
        THEN ForwardSlot(words[SetMax(before)], SetMax(before), i)
        ELSE IF after # {}
        THEN BackwardSlot(words[SetMin(after)], SetMin(after), i)
        ELSE <<None, None>>

\* ensure no negative times and within bounds; min(None, x) is a TypeError in
\* Python, shown here by the word staying unresolved
ClampWord(w, audioDuration) ==
    LET start == RMax(Zero, RMin(w.start, audioDuration))
    IN  IF IsNone(w.start) \/ IsNone(w.end) THEN w
        ELSE [w EXCEPT !.start = start,
                       !.end = RMax(start, RMin(w.end, audioDuration))]

\* one iteration of `for sent in sentences`
InterpolateSentence(sent, audioDuration) ==
    LET words == sent.words
        known == KnownIndices(words)
        n == Len(words)
    IN  IF n = 0 THEN sent
        ELSE IF known = {}
        THEN [sent EXCEPT !.words =
                [i \in 1..n |->
                    [words[i] EXCEPT
                        !.start = EvenSlot(sent.start, sent.end, n, i)[1],
                        !.end = EvenSlot(sent.start, sent.end, n, i)[2],
                        !.confidence = InterpolatedConfidence]]]
        ELSE [sent EXCEPT !.words =
                [i \in 1..n |->
                    ClampWord(
                        IF i \in known THEN words[i]
                        ELSE [words[i] EXCEPT
                                !.start = GapSlot(words, known, i)[1],
                                !.end = GapSlot(words, known, i)[2],
                                !.confidence = InterpolatedConfidence],
                        audioDuration)]]

InterpolateMissingTimestamps(sents, audioDuration) ==
    [k \in 1..Len(sents) |-> InterpolateSentence(sents[k], audioDuration)]

(***************************************************************************)
(* create_simple_timing                                                    *)
(***************************************************************************)
RECURSIVE TotalWords(_)
TotalWords(sents) ==
    IF sents = <<>> THEN 0
    ELSE Len(ExtractWords(Head(sents).text)) + TotalWords(Tail(sents))

\* the loop over the sentences, from the running clock currentTime
RECURSIVE SimpleSentences(_, _, _)
SimpleSentences(sents, timePerWord, currentTime) ==
    IF sents = <<>> THEN <<>>
    ELSE LET sent == Head(sents)
             words == ExtractWords(sent.text)
             sentDuration == RMul(FromInt(Len(words)), timePerWord)
             wordStart(i) == RAdd(currentTime, RMul(FromInt(i - 1), timePerWord))
         IN  <<[sentence_index |-> sent.index,
                text |-> sent.text,
                start |-> currentTime,
                end |-> RAdd(currentTime, sentDuration),
                words |-> [i \in 1..Len(words) |->
                             [word |-> words[i],
                              start |-> wordStart(i),
                              end |-> RAdd(wordStart(i), timePerWord),
                              confidence |-> EstimateConfidence]]]>>
             \o SimpleSentences(Tail(sents), timePerWord,
                                RAdd(currentTime, sentDuration))

\* variant of CreateSimpleTiming without the early return: a document without
\* words keeps its sentences, each of zero length
CreateSimpleTimingKeepsSentences(sents, audioDuration, wordsPerMinute) ==
    IF TotalWords(sents) = 0 THEN SimpleSentences(sents, Zero, Zero)
    ELSE SimpleSentences(sents,
                         RDiv(audioDuration, FromInt(TotalWords(sents))), Zero)

\* variant of CreateSimpleTiming that paces the words by the speaking rate,
\* 60 / words_per_minute seconds each, instead of spreading the audio over them
CreateSimpleTimingByRate(sents, audioDuration, wordsPerMinute) ==
    IF TotalWords(sents) = 0 THEN <<>>
    ELSE SimpleSentences(sents, RDiv(FromInt(60), FromInt(wordsPerMinute)), Zero)

\* the sentences of the document create_simple_timing returns
CreateSimpleTiming(sents, audioDuration, wordsPerMinute) ==
    IF TotalWords(sents) = 0 THEN <<>>
    ELSE SimpleSentences(sents,
                         RDiv(audioDuration, FromInt(TotalWords(sents))), Zero)

(***************************************************************************)
(* get_display_state                                                       *)
(***************************************************************************)
\* Python's seq[i], i 0-based and in range
At(seq, i) == seq[i + 1]

\* Python's seq[i] for any integer i: negative i counts from the end, and an
\* i outside -len..len-1 raises IndexError
IndexOk(seq, i) == -Len(seq) <= i /\ i < Len(seq)
PyAt(seq, i) == IF i < 0 THEN seq[Len(seq) + i + 1] ELSE seq[i + 1]

\* the call raised instead of returning
Raised == [raised |-> "IndexError"]

\* a sentence that is None
NoSentence == [none |-> TRUE]

Contains(item, t) == RLe(item.start, t) /\ RLt(t, item.end)

\* variant of CurrentSentenceIndex in which the sentence that just ended stays
\* current during a gap
CurrentSentenceIndexPrevWins(sents, t) ==
    LET n == Len(sents)
        inside == {i \in 0..(n - 1) : Contains(At(sents, i), t)}
        gaps == {i \in 0..(n - 1) :
                    /\ RLe(At(sents, i).end, t)
                    /\ i + 1 < n
                    /\ RLt(t, At(sents, i + 1).start)}
    IN  IF inside # {} THEN SetMin(inside)
        ELSE IF RLt(t, At(sents, 0).start) THEN 0
        ELSE IF RLe(At(sents, n - 1).end, t) THEN n - 1
        ELSE IF gaps # {} THEN SetMin(gaps)
        ELSE 0

\* variant of CurrentSentenceIndex that answers len(sentences) past the end
CurrentSentenceIndexPastEnd(sents, t) ==
    LET n == Len(sents)
        inside == {i \in 0..(n - 1) : Contains(At(sents, i), t)}
        gaps == {i \in 0..(n - 1) :
                    /\ RLe(At(sents, i).end, t)
                    /\ i + 1 < n
                    /\ RLt(t, At(sents, i + 1).start)}
    IN  IF inside # {} THEN SetMin(inside)
        ELSE IF RLt(t, At(sents, 0).start) THEN 0
        ELSE IF RLe(At(sents, n - 1).end, t) THEN n
        ELSE IF gaps # {} THEN SetMin(gaps) + 1
        ELSE 0

\* variant of CurrentSentenceIndex that takes the last sentence containing t
CurrentSentenceIndexLastContaining(sents, t) ==
    LET n == Len(sents)
        inside == {i \in 0..(n - 1) : Contains(At(sents, i), t)}
        gaps == {i \in 0..(n - 1) :
                    /\ RLe(At(sents, i).end, t)
                    /\ i + 1 < n
                    /\ RLt(t, At(sents, i + 1).start)}
    IN  IF inside # {} THEN SetMax(inside)
        ELSE IF RLt(t, At(sents, 0).start) THEN 0
        ELSE IF RLe(At(sents, n - 1).end, t) THEN n - 1
        ELSE IF gaps # {} THEN SetMin(gaps) + 1
        ELSE 0

\* variant of CurrentSentenceIndex without the search for the sentence that
\* just ended
CurrentSentenceIndexSkipsGaps(sents, t) ==
    LET n == Len(sents)
        inside == {i \in 0..(n - 1) : Contains(At(sents, i), t)}
    IN  IF inside # {} THEN SetMin(inside)
        ELSE IF RLt(t, At(sents, 0).start) THEN 0
        ELSE IF RLe(At(sents, n - 1).end, t) THEN n - 1
        ELSE 0

\* current_sent_idx, 0-based, of a non-empty sentence list
CurrentSentenceIndex(sents, t) ==
    LET n == Len(sents)
        inside == {i \in 0..(n - 1) : Contains(At(sents, i), t)}
        gaps == {i \in 0..(n - 1) :
                    /\ RLe(At(sents, i).end, t)
                    /\ i + 1 < n
                    /\ RLt(t, At(sents, i + 1).start)}
    IN  IF inside # {} THEN SetMin(inside)
        ELSE IF RLt(t, At(sents, 0).start) THEN 0
        ELSE IF RLe(At(sents, n - 1).end, t) THEN n - 1
        ELSE IF gaps # {} THEN SetMin(gaps) + 1
        ELSE 0

Clamp01(x) == RMax(Zero, RMin(One, x))

\* variant of SentenceProgress without the clamp to [0, 1]
SentenceProgressUnclamped(sent, t) ==
    LET sentDuration == RSub(sent.end, sent.start)
    IN  IF RLt(Zero, sentDuration)
        THEN RDiv(RSub(t, sent.start), sentDuration)
        ELSE Zero

SentenceProgress(sent, t) ==
    LET sentDuration == RSub(sent.end, sent.start)
    IN  IF RLt(Zero, sentDuration)
        THEN Clamp01(RDiv(RSub(t, sent.start), sentDuration))
        ELSE Zero

\* variant of CurrentWordIndex that takes the first later word itself
CurrentWordIndexNext(words, t) ==
    LET n == Len(words)
        inside == {i \in 0..(n - 1) : Contains(At(words, i), t)}
        later == {i \in 0..(n - 1) : RLt(t, At(words, i).start)}
    IN  IF inside # {} THEN SetMin(inside)
        ELSE IF n = 0 THEN NoIndex
        ELSE IF later # {} THEN SetMin(later)
        ELSE n - 1

\* current_word_idx, 0-based, or None when the sentence has no words
CurrentWordIndex(words, t) ==
    LET n == Len(words)
        inside == {i \in 0..(n - 1) : Contains(At(words, i), t)}
        later == {i \in 0..(n - 1) : RLt(t, At(words, i).start)}
    IN  IF inside # {} THEN SetMin(inside)
        ELSE IF n = 0 THEN NoIndex
        ELSE IF later # {}
        THEN (IF SetMin(later) > 0 THEN SetMin(later) - 1 ELSE 0)
        ELSE n - 1

WordProgress(words, t) ==
    LET inside == {i \in 0..(Len(words) - 1) : Contains(At(words, i), t)}
        word == At(words, SetMin(inside))
        wordDuration == RSub(word.end, word.start)
    IN  IF inside # {} /\ RLt(Zero, wordDuration)
        THEN RDiv(RSub(t, word.start), wordDuration)
        ELSE Zero

TotalProgress(t, audioDuration) ==
    IF RLt(Zero, audioDuration) THEN RDiv(t, audioDuration) ELSE Zero

\* the result for current_time
DisplayStateAt(sents, audioDuration, currentTime) ==
    IF sents = <<>>
    THEN [current_sentence_index |-> NoIndex,
          current_word_index |-> NoIndex,
          previous_sentence |-> NoSentence,
          current_sentence |-> NoSentence,
          next_sentence |-> NoSentence,
          sentence_progress |-> Zero,
          word_progress |-> Zero,
          total_progress |-> Zero]
    ELSE LET idx == CurrentSentenceIndex(sents, currentTime)
             sent == PyAt(sents, idx)
         IN  IF ~IndexOk(sents, idx) THEN Raised
             ELSE
             [current_sentence_index |-> idx,
              current_word_index |-> CurrentWordIndex(sent.words, currentTime),
              previous_sentence |->
                  IF idx > 0 THEN PyAt(sents, idx - 1) ELSE NoSentence,
              current_sentence |-> sent,
              next_sentence |->
                  IF idx < Len(sents) - 1 THEN PyAt(sents, idx + 1) ELSE NoSentence,
              sentence_progress |-> SentenceProgress(sent, currentTime),
              word_progress |-> WordProgress(sent.words, currentTime),
              total_progress |-> TotalProgress(currentTime, audioDuration),
              current_time |-> currentTime]

\* variant of GetDisplayState that scales the playback time by the speed
GetDisplayStateAtSpeed(sents, audioDuration, playbackTime, speed) ==
    DisplayStateAt(sents, audioDuration, RMul(playbackTime, speed))

\* current_time = playback_time: the speed is not used
GetDisplayState(sents, audioDuration, playbackTime, speed) ==
    DisplayStateAt(sents, audioDuration, playbackTime)

(***************************************************************************)
(* find_sentence_at_time, time_to_sentence_index, sentence_index_to_time   *)
(***************************************************************************)
\* the sentence index at a time, or None
FindSentenceAtTime(sents, t) ==
    LET n == Len(sents)
        inside == {i \in 0..(n - 1) : Contains(At(sents, i), t)}
    IN  IF inside # {} THEN SetMin(inside)
        ELSE IF n > 0 /\ RLt(t, At(sents, 0).start) THEN 0
        ELSE IF n > 0 /\ RLe(At(sents, n - 1).end, t) THEN n - 1
        ELSE NoIndex

\* (sentence_index, progress_within_sentence)
TimeToSentenceIndex(sents, t) ==
    LET idx == FindSentenceAtTime(sents, t)
        sent == At(sents, idx)
        duration == RSub(sent.end, sent.start)
        progress == IF RLt(Zero, duration)
                    THEN RDiv(RSub(t, sent.start), duration)
                    ELSE Zero
    IN  IF idx = NoIndex THEN [index |-> 0, progress |-> Zero]
        ELSE [index |-> idx, progress |-> Clamp01(progress)]

\* variant of SentenceIndexToTime that answers the start of the sentence
SentenceIndexToTimeAtStart(sents, audioDuration, sentenceIndex, progress) ==
    IF sents = <<>> \/ sentenceIndex < 0 THEN Zero
    ELSE IF sentenceIndex >= Len(sents) THEN audioDuration
    ELSE At(sents, sentenceIndex).start

SentenceIndexToTime(sents, audioDuration, sentenceIndex, progress) ==
    IF sents = <<>> \/ sentenceIndex < 0 THEN Zero
    ELSE IF sentenceIndex >= Len(sents) THEN audioDuration
    ELSE LET sent == At(sents, sentenceIndex)
             duration == RSub(sent.end, sent.start)
         IN  RAdd(sent.start, RMul(duration, progress))

(***************************************************************************)
(* State                                                                   *)
(***************************************************************************)
VARIABLES
    pc,               \* where the run is
    sentences,        \* input: the source sentences, [index, text]
    whisper_result,   \* input: the engine's words, [word, start, end]
    audio_duration,   \* input: total audio duration
    all_words,        \* the flattened engine words
    word_idx,         \* cursor into all_words, 0-based
    sent_pos,         \* how many sentences the loop has taken
    sent_words,       \* the current sentence's tokens
    matched_words,    \* the current sentence's word timings so far
    sent_start,       \* the current sentence's start, or None
    sent_end,         \* the current sentence's end, or None
    timing_sentences, \* the sentence timings built or given
    best_match_log,   \* history: per sentence, each word's best_match_idx
    interp_input,     \* history: the sentences as handed to the interpolation
    playback_time,    \* the last time given to get_display_state or
                      \* time_to_sentence_index
    display,          \* the last DisplayState returned
    speed,            \* the last speed given to get_display_state
    earlier,          \* history: the call before the last, if at the same time
    position,         \* the last (index, progress) of time_to_sentence_index
    seek,             \* the last call of sentence_index_to_time
    align_call,       \* align_or_estimate: use_whisper and the alignment's outcome
    words_per_minute, \* the last words_per_minute given to create_simple_timing
    cursor_log,       \* history: per sentence, each word's word_idx before and after
    document,         \* the timing document returned
    item_dirs,        \* library: the item directories on disk
    library_index,    \* library: the "items" list of library.json
    issued_ids,       \* history: the ids uuid4 has given out
    deleted_ids,      \* history: the ids delete_item has removed
    lib_call,         \* library: the last call and what it returned
    text,             \* text processing: the text given
    max_chars,        \* text processing: chunk_text's limit
    chunks,           \* text processing: chunk_text's result
    chapters          \* text processing: split_into_chapters' result

vars == <<pc, sentences, whisper_result, audio_duration, all_words, word_idx,
          sent_pos, sent_words, matched_words, sent_start, sent_end,
          timing_sentences, best_match_log, interp_input, playback_time,
          display, speed, earlier, position, seek, align_call,
          words_per_minute, cursor_log, document, item_dirs, library_index, issued_ids, deleted_ids, lib_call,
          text, max_chars, chunks, chapters>>

inputVars == <<sentences, whisper_result, audio_duration>>
loopVars == <<sent_words, matched_words, sent_start, sent_end>>
syncVars == <<playback_time, display, speed, earlier, position, seek>>
callVars == <<align_call, words_per_minute>>
libVars == <<item_dirs, library_index, issued_ids, deleted_ids, lib_call>>
textVars == <<text, max_chars, chunks, chapters>>
\* the state of the library, of the text processing and of align_or_estimate
otherVars == <<libVars, textVars, callVars>>

NoDisplay == [none |-> TRUE]

\* no earlier call at the same playback time
NoEarlier == [none |-> TRUE]

\* time_to_sentence_index and sentence_index_to_time not called yet
NoPosition == [none |-> TRUE]
NoSeek == [none |-> TRUE]

\* no document returned yet
NoDocument == [none |-> TRUE]

\* no library call made yet
NoCall == [op |-> "none"]

\* an empty library: no item directory, {"items": []} as the index
BlankLibrary ==
    /\ item_dirs = {}
    /\ library_index = <<>>
    /\ issued_ids = {}
    /\ deleted_ids = {}
    /\ lib_call = NoCall

\* no text given to the text processing
BlankText ==
    /\ text = <<>>
    /\ max_chars = 0
    /\ chunks = <<>>
    /\ chapters = <<>>

\* the locals and results of the timing functions, before any call
BlankTiming ==
    /\ all_words = <<>>
    /\ word_idx = 0
    /\ sent_pos = 0
    /\ sent_words = <<>>
    /\ matched_words = <<>>
    /\ sent_start = None
    /\ sent_end = None
    /\ best_match_log = <<>>
    /\ interp_input = <<>>
    /\ playback_time = None
    /\ display = NoDisplay
    /\ speed = None
    /\ earlier = NoEarlier
    /\ position = NoPosition
    /\ seek = NoSeek
    /\ align_call = NoCall
    /\ words_per_minute = 0
    /\ cursor_log = <<>>
    /\ document = NoDocument

\* everything but the inputs and pc, before any call
Blank == BlankTiming /\ BlankLibrary /\ BlankText

Init ==
    /\ pc = "start"
    /\ sentences \in SentenceLists
    /\ whisper_result \in Transcripts
    /\ audio_duration \in {FromInt(d) : d \in Durations}
    /\ timing_sentences = <<>>
    /\ Blank

(***************************************************************************)
(* map_words_to_sentences, one loop iteration per action                   *)
(***************************************************************************)
\* the dict both entry points return
TimingDocument(audioDuration, sents) ==
    [version |-> "1.0", audio_duration |-> audioDuration, sentences |-> sents]

\* extract all words with timing; timing_sentences = []; word_idx = 0
MapStart ==
    /\ pc = "start"
    /\ all_words' = FlattenWords(whisper_result)
    /\ timing_sentences' = <<>>
    /\ word_idx' = 0
    /\ pc' = "loop"
    /\ UNCHANGED <<otherVars, inputVars, loopVars, sent_pos, best_match_log,
                   interp_input, syncVars, cursor_log, document>>

\* for sent in sentences: tokenize, reset the per-sentence state
NextSentence ==
    /\ pc = "loop"
    /\ sent_pos < Len(sentences)
    /\ sent_pos' = sent_pos + 1
    /\ sent_words' = ExtractWords(sentences[sent_pos + 1].text)
    /\ matched_words' = <<>>
    /\ sent_start' = None
    /\ sent_end' = None
    /\ best_match_log' = Append(best_match_log, <<>>)
    /\ cursor_log' = Append(cursor_log, <<>>)
    /\ pc' = "words"
    /\ UNCHANGED <<otherVars, inputVars, all_words, word_idx, timing_sentences,
                   interp_input, syncVars, document>>

\* variant of WordTiming that stores the engine's spelling of a matched word
WordTimingEngineSpelling(sentWord, allWords, idx) ==
    IF idx # NoIndex
    THEN [word |-> At(allWords, idx).word,
          start |-> At(allWords, idx).start,
          end |-> At(allWords, idx).end,
          confidence |-> At(allWords, idx).confidence]
    ELSE [word |-> sentWord, start |-> None, end |-> None,
          confidence |-> NoConfidence]

\* the word timing appended for sent_word given best_match_idx
WordTiming(sentWord, allWords, idx) ==
    IF idx # NoIndex
    THEN [word |-> sentWord,
          start |-> At(allWords, idx).start,
          end |-> At(allWords, idx).end,
          confidence |-> At(allWords, idx).confidence]
    ELSE [word |-> sentWord, start |-> None, end |-> None,
          confidence |-> NoConfidence]

\* word_idx after a word whose best_match_idx is idx
CursorAfter(widx, idx) == IF idx # NoIndex THEN idx + 1 ELSE widx

\* for sent_word in sent_words: search the window, record match or None
MatchWord ==
    /\ pc = "words"
    /\ Len(matched_words) < Len(sent_words)
    /\ LET sentWord == sent_words[Len(matched_words) + 1]
           idx == BestMatchIdx(sentWord, word_idx, Len(sent_words), all_words)
       IN  /\ matched_words' =
                  Append(matched_words, WordTiming(sentWord, all_words, idx))
           /\ sent_start' =
                  IF idx # NoIndex /\ IsNone(sent_start)
                  THEN At(all_words, idx).start
                  ELSE sent_start
           /\ sent_end' =
                  IF idx # NoIndex THEN At(all_words, idx).end ELSE sent_end
           /\ word_idx' = CursorAfter(word_idx, idx)
           /\ best_match_log' =
                  [best_match_log EXCEPT ![Len(best_match_log)] = Append(@, idx)]
           /\ cursor_log' =
                  [cursor_log EXCEPT ![Len(cursor_log)] =
                       Append(@, <<word_idx, CursorAfter(word_idx, idx)>>)]
    /\ UNCHANGED <<otherVars, pc, inputVars, all_words, sent_pos, sent_words,
                   timing_sentences, interp_input, syncVars, document>>

\* variant of DefaultStart that starts every unmatched sentence at 0.0
DefaultStartZero(timingSents) == Zero

\* sentence start when no word matched: the previous sentence's end, or 0.0
DefaultStart(timingSents) ==
    IF timingSents # <<>> THEN timingSents[Len(timingSents)].end ELSE Zero

\* set sentence timing and append the sentence
FinishSentence ==
    /\ pc = "words"
    /\ Len(matched_words) = Len(sent_words)
    /\ LET start == IF IsNone(sent_start)
                    THEN DefaultStart(timing_sentences)
                    ELSE sent_start
           end == IF IsNone(sent_end)
                  THEN RAdd(start, FromInt(DefaultSentenceSeconds))
                  ELSE sent_end
       IN  timing_sentences' =
               Append(timing_sentences,
                      [sentence_index |-> sentences[sent_pos].index,
                       text |-> sentences[sent_pos].text,
                       start |-> start,
                       end |-> end,
                       words |-> matched_words])
    /\ pc' = "loop"
    /\ UNCHANGED <<otherVars, inputVars, all_words, word_idx, sent_pos, loopVars,
                   best_match_log, interp_input, syncVars, cursor_log, document>>

\* interpolate missing timestamps and return the document
Interpolate ==
    /\ pc = "loop"
    /\ sent_pos = Len(sentences)
    /\ interp_input' = timing_sentences
    /\ timing_sentences' =
           InterpolateMissingTimestamps(timing_sentences, audio_duration)
    /\ document' = TimingDocument(audio_duration, timing_sentences')
    /\ pc' = "mapped"
    /\ UNCHANGED <<otherVars, inputVars, all_words, word_idx, sent_pos, loopVars,
                   best_match_log, syncVars, cursor_log>>

(***************************************************************************)
(* create_simple_timing as the other entry point                           *)
(***************************************************************************)
DefaultWordsPerMinute == 150
WordsPerMinute == {DefaultWordsPerMinute, 120}

Estimate ==
    /\ pc = "start"
    /\ \E wpm \in WordsPerMinute :
           /\ words_per_minute' = wpm
           /\ timing_sentences' =
                  CreateSimpleTiming(sentences, audio_duration, wpm)
    /\ document' = TimingDocument(audio_duration, timing_sentences')
    /\ pc' = "estimated"
    /\ UNCHANGED <<libVars, textVars, align_call, inputVars, all_words, word_idx, sent_pos, loopVars,
                   best_match_log, interp_input, syncVars, cursor_log>>

Next ==
    \/ MapStart
    \/ NextSentence
    \/ MatchWord
    \/ FinishSentence
    \/ Interpolate
    \/ Estimate

Spec == Init /\ [][Next]_vars

(***************************************************************************)
(* create_simple_timing called on its own                                  *)
(***************************************************************************)
MaxEstimateSentences == 3

\* n one-letter words separated by blanks
RepeatedWords(n) == [i \in 1..(2 * n - 1) |-> IF i % 2 = 1 THEN "a" ELSE " "]

\* 150 words, the first sentence 100 words long
ExampleSentences ==
    <<[index |-> 0, text |-> RepeatedWords(100)],
      [index |-> 1, text |-> RepeatedWords(50)]>>

EstimateSentenceLists ==
    {ExampleSentences} \cup
    {[i \in 1..Len(ts) |-> [index |-> i - 1, text |-> ts[i]]] :
        ts \in SeqsUpTo(Texts, MaxEstimateSentences)}

EstimateDurations == {0, 1, 5, 60}

InitEstimate ==
    /\ pc = "start"
    /\ sentences \in EstimateSentenceLists
    /\ whisper_result = <<>>
    /\ audio_duration \in {FromInt(d) : d \in EstimateDurations}
    /\ timing_sentences = <<>>
    /\ Blank

NextEstimate == Estimate

SpecEstimate == InitEstimate /\ [][NextEstimate]_vars

(***************************************************************************)
(* align_or_estimate                                                       *)
(***************************************************************************)
\* what the alignment path can raise: a missing package, a failing model, an
\* unusable transcription
AlignmentErrors == {"ImportError", "RuntimeError", "ValueError"}

\* variant of ExceptExceptionCatches that handles RuntimeError alone
ExceptRuntimeErrorCatches(e) == e = "RuntimeError"

\* `except Exception` catches each of them
ExceptExceptionCatches(e) == e \in AlignmentErrors

InitAlignOrEstimate ==
    /\ pc = "called"
    /\ sentences \in SentenceLists
    /\ whisper_result \in Transcripts
    /\ audio_duration \in {FromInt(d) : d \in Durations}
    /\ timing_sentences = <<>>
    /\ Blank

\* everything align_or_estimate's own steps leave alone
outsideCall ==
    <<inputVars, all_words, word_idx, sent_pos, loopVars, best_match_log,
      interp_input, syncVars, cursor_log, libVars, textVars>>

\* use_whisper is false: straight to the estimate
SkipAlignment ==
    /\ pc = "called"
    /\ align_call' = [use_whisper |-> FALSE, alignment |-> "not attempted"]
    /\ pc' = "fallback"
    /\ UNCHANGED <<outsideCall, timing_sentences, document, words_per_minute>>

\* use_whisper is true and align_audio_with_text raises
AlignmentRaises ==
    /\ pc = "called"
    /\ \E e \in AlignmentErrors :
           /\ align_call' = [use_whisper |-> TRUE, alignment |-> e]
           /\ pc' = IF ExceptExceptionCatches(e) THEN "fallback" ELSE "raised"
    /\ UNCHANGED <<outsideCall, timing_sentences, document, words_per_minute>>

\* use_whisper is true and the engine delivers its words: the mapper runs and
\* its document is returned
AlignmentTranscribes ==
    /\ pc = "called"
    /\ align_call' = [use_whisper |-> TRUE, alignment |-> "returned"]
    /\ pc' = "start"
    /\ UNCHANGED <<outsideCall, timing_sentences, document, words_per_minute>>

\* create_simple_timing(sentences, info.duration)
Fallback ==
    /\ pc = "fallback"
    /\ words_per_minute' = DefaultWordsPerMinute
    /\ timing_sentences' =
           CreateSimpleTiming(sentences, audio_duration, DefaultWordsPerMinute)
    /\ document' = TimingDocument(audio_duration, timing_sentences')
    /\ pc' = "estimated"
    /\ UNCHANGED <<outsideCall, align_call>>

NextAlignOrEstimate ==
    \/ SkipAlignment
    \/ AlignmentRaises
    \/ AlignmentTranscribes
    \/ MapStart
    \/ NextSentence
    \/ MatchWord
    \/ FinishSentence
    \/ Interpolate
    \/ Fallback

SpecAlignOrEstimate == InitAlignOrEstimate /\ [][NextAlignOrEstimate]_vars

(***************************************************************************)
(* interpolate_missing_timestamps called on its own                        *)
(***************************************************************************)
MaxInterpWords == 5

KnownIntervals == {<<0, 1>>, <<2, 4>>, <<4, 5>>, <<5, 6>>}
InterpSpans == {<<0, 2>>, <<4, 8>>}
InterpDurations == {3, 10}

UnresolvedWord ==
    [word |-> <<"x">>, start |-> None, end |-> None, confidence |-> NoConfidence]

KnownWord(iv) ==
    [word |-> <<"x">>, start |-> FromInt(iv[1]), end |-> FromInt(iv[2]),
     confidence |-> DefaultScore]

InterpWords == {UnresolvedWord} \cup {KnownWord(iv) : iv \in KnownIntervals}

\* one sentence: any pattern of known and unresolved words
InterpDocs ==
    {<<[sentence_index |-> 0, text |-> <<>>,
        start |-> FromInt(sp[1]), end |-> FromInt(sp[2]), words |-> ws]>> :
        sp \in InterpSpans, ws \in SeqsUpTo(InterpWords, MaxInterpWords)}

InitInterp ==
    /\ pc = "interp"
    /\ sentences = <<>>
    /\ whisper_result = <<>>
    /\ audio_duration \in {FromInt(d) : d \in InterpDurations}
    /\ timing_sentences \in InterpDocs
    /\ Blank

InterpolateDirect ==
    /\ pc = "interp"
    /\ interp_input' = timing_sentences
    /\ timing_sentences' =
           InterpolateMissingTimestamps(timing_sentences, audio_duration)
    /\ pc' = "interpolated"
    /\ UNCHANGED <<otherVars, inputVars, all_words, word_idx, sent_pos, loopVars,
                   best_match_log, syncVars, cursor_log, document>>

NextInterp == InterpolateDirect

SpecInterp == InitInterp /\ [][NextInterp]_vars

(***************************************************************************)
(* get_display_state on stored timing documents                            *)
(***************************************************************************)
MaxSyncSentences == 2

\* sentence (start, end): in order, gapped, overlapping, empty, reversed
SyncSpans == {<<0, 2>>, <<3, 4>>, <<1, 4>>, <<1, 1>>, <<4, 3>>}
SyncWord(a, b) ==
    [word |-> <<"x">>, start |-> FromInt(a), end |-> FromInt(b),
     confidence |-> DefaultScore]
SyncWordLists ==
    {<<>>, <<SyncWord(0, 1), SyncWord(1, 2), SyncWord(3, 4)>>,
     <<SyncWord(3, 3), SyncWord(1, 2)>>}
SyncDurations == {0, 4}
PlaybackTimes ==
    {<<-1, 1>>, <<0, 1>>, <<1, 2>>, <<1, 1>>, <<3, 2>>, <<2, 1>>, <<5, 2>>,
     <<3, 1>>, <<7, 2>>, <<4, 1>>, <<5, 1>>}
Speeds == {<<1, 1>>, <<2, 1>>}

SyncSentences ==
    {[text |-> <<>>, start |-> FromInt(sp[1]), end |-> FromInt(sp[2]),
      words |-> ws] : sp \in SyncSpans, ws \in SyncWordLists}

SyncDocs ==
    {[k \in 1..Len(ss) |->
        [sentence_index |-> k - 1, text |-> ss[k].text, start |-> ss[k].start,
         end |-> ss[k].end, words |-> ss[k].words]] :
        ss \in SeqsUpTo(SyncSentences, MaxSyncSentences)}

InitSync ==
    /\ pc = "sync"
    /\ sentences = <<>>
    /\ whisper_result = <<>>
    /\ audio_duration \in {FromInt(d) : d \in SyncDurations}
    /\ timing_sentences \in SyncDocs
    /\ Blank

\* one playback tick
Resolve ==
    /\ pc = "sync"
    /\ \E t \in PlaybackTimes, s \in Speeds :
           /\ playback_time' = t
           /\ speed' = s
           /\ display' = GetDisplayState(timing_sentences, audio_duration, t, s)
    /\ earlier' = NoEarlier
    /\ pc' = "resolved"
    /\ UNCHANGED <<position, seek, otherVars, inputVars, all_words, word_idx, sent_pos, loopVars,
                   timing_sentences, best_match_log, interp_input, cursor_log,
                   document>>

NextSync == Resolve

SpecSync == InitSync /\ [][NextSync]_vars

(***************************************************************************)
(* get_display_state called again on the same document                     *)
(***************************************************************************)
MaxReplaySentences == 1

ReplayDocs == {d \in SyncDocs : Len(d) <= MaxReplaySentences}

InitReplay ==
    /\ pc = "sync"
    /\ sentences = <<>>
    /\ whisper_result = <<>>
    /\ audio_duration \in {FromInt(d) : d \in SyncDurations}
    /\ timing_sentences \in ReplayDocs
    /\ Blank

\* a further playback tick; a tick at the time of the one before keeps that
\* one's speed and result for comparison
ResolveAgain ==
    /\ pc = "resolved"
    /\ \E t \in PlaybackTimes, s \in Speeds :
           /\ earlier' = IF t = playback_time
                          THEN [speed |-> speed, display |-> display,
                                sentences |-> timing_sentences,
                                audio_duration |-> audio_duration]
                          ELSE NoEarlier
           /\ playback_time' = t
           /\ speed' = s
           /\ display' = GetDisplayState(timing_sentences, audio_duration, t, s)
    /\ pc' = "resolved"
    /\ UNCHANGED <<position, seek, otherVars, inputVars, all_words, word_idx,
                   sent_pos, loopVars, timing_sentences, best_match_log,
                   interp_input, cursor_log, document>>

NextReplay ==
    \/ Resolve
    \/ ResolveAgain

SpecReplay == InitReplay /\ [][NextReplay]_vars

(***************************************************************************)
(* time_to_sentence_index and sentence_index_to_time                       *)
(***************************************************************************)
\* documents whose sentences carry no words: the two functions read none
SeekDocs == {d \in SyncDocs : \A k \in 1..Len(d) : d[k].words = <<>>}

\* arguments of sentence_index_to_time: an index below, inside and past the
\* document, with a progress
SeekPositions ==
    [index : {-1, 0, 1, MaxSyncSentences}, progress : {Zero, Half, One}]

InitSeek ==
    /\ pc = "sync"
    /\ sentences = <<>>
    /\ whisper_result = <<>>
    /\ audio_duration \in {FromInt(d) : d \in SyncDurations}
    /\ timing_sentences \in SeekDocs
    /\ Blank

TimeToSentenceIndexCall ==
    /\ pc = "sync"
    /\ \E t \in PlaybackTimes :
           /\ playback_time' = t
           /\ position' = TimeToSentenceIndex(timing_sentences, t)
    /\ pc' = "indexed"
    /\ UNCHANGED <<display, speed, earlier, seek, otherVars, inputVars,
                   all_words, word_idx, sent_pos, loopVars, timing_sentences,
                   best_match_log, interp_input, cursor_log, document>>

\* called with the position just computed, or with any other one
SentenceIndexToTimeCall ==
    /\ pc = "indexed"
    /\ \E p \in {position} \cup SeekPositions :
           seek' = [index |-> p.index, progress |-> p.progress,
                    time |-> SentenceIndexToTime(timing_sentences, audio_duration,
                                                 p.index, p.progress)]
    /\ pc' = "timed"
    /\ UNCHANGED <<playback_time, display, speed, earlier, position, otherVars,
                   inputVars, all_words, word_idx, sent_pos, loopVars,
                   timing_sentences, best_match_log, interp_input, cursor_log,
                   document>>

NextSeek ==
    \/ TimeToSentenceIndexCall
    \/ SentenceIndexToTimeCall

SpecSeek == InitSeek /\ [][NextSeek]_vars

(***************************************************************************)
(* library.py: the item directories and the index                          *)
(***************************************************************************)
MaxItems == 2

\* the ids uuid4 can give out
Uuids == {"u" \o ToString(i) : i \in 1..MaxItems}

\* the empty string as an item id
EmptyId == ""

\* the ids a caller can pass
ItemIds == Uuids \cup {EmptyId}

\* a file that does not exist, a result that is None
Absent == [none |-> TRUE]

\* chapter contents and chapter lists given to create_book
ChapterLists == {<<>>, <<"Content.">>, <<"Content.", "">>}
ChapterIndexes == {-1, 0, 1, 2}

\* the content of timing.json
TimingData == [version |-> "1.0"]

\* LIBRARY_DIR / item_id exists
ItemDirExists(dirs, id) == \E d \in dirs : d.id = id

\* the directory LIBRARY_DIR / item_id
ItemDir(dirs, id) == CHOOSE d \in dirs : d.id = id

\* LIBRARY_DIR itself, which is LIBRARY_DIR / ""
LibraryDir == [id |-> EmptyId, metadata |-> Absent, timing |-> Absent]

\* init_library: LIBRARY_DIR.mkdir(exist_ok=True)
InitLibrary(dirs) ==
    IF ItemDirExists(dirs, EmptyId) THEN dirs ELSE dirs \cup {LibraryDir}

\* get_item: the metadata, or None when metadata.json does not exist
GetItem(dirs, id) ==
    IF ItemDirExists(dirs, id) THEN ItemDir(dirs, id).metadata ELSE Absent

\* get_timing: the timing data, or None when timing.json does not exist
GetTiming(dirs, id) ==
    IF ItemDirExists(dirs, id) THEN ItemDir(dirs, id).timing ELSE Absent

\* get_all_items: the index's items
GetAllItems(index) == index

\* shutil.rmtree(LIBRARY_DIR / item_id): the directory and all below it
RmTree(dirs, id) ==
    IF id = EmptyId THEN {} ELSE {d \in dirs : d.id # id}

\* the index without the entries of item_id
WithoutItem(index, id) ==
    LET Keep(e) == e.id # id IN SelectSeq(index, Keep)

\* variant of ChapterText that does not reject a negative chapter_idx
ChapterTextNoLowerBound(item, idx) ==
    IF item = Absent THEN Absent
    ELSE IF item.type # "book" THEN Absent
    ELSE IF idx >= Len(item.chapters) \/ ~IndexOk(item.chapters, idx) THEN Absent
    ELSE IF PyAt(item.chapters, idx) # "" THEN [text |-> PyAt(item.chapters, idx)]
    ELSE Absent

\* what get_chapter_text returns for the item get_item found; a book made by
\* create_book has no chapters/ directory
ChapterText(item, idx) ==
    IF item = Absent THEN Absent
    ELSE IF item.type # "book" THEN Absent
    ELSE IF idx < 0 \/ idx >= Len(item.chapters) THEN Absent
    ELSE IF At(item.chapters, idx) # "" THEN [text |-> At(item.chapters, idx)]
    ELSE Absent

\* everything outside the library
outsideLibrary ==
    <<pc, inputVars, all_words, word_idx, sent_pos, loopVars, timing_sentences,
      best_match_log, interp_input, syncVars, callVars, cursor_log, document,
      textVars>>

InitLibrarySpec ==
    /\ pc = "library"
    /\ sentences = <<>>
    /\ whisper_result = <<>>
    /\ audio_duration = None
    /\ timing_sentences = <<>>
    /\ Blank

\* str(uuid.uuid4()): an id never given out before; which one does not matter
NewUuid == CHOOSE id \in Uuids \ issued_ids : TRUE

\* the directory, the metadata and the index entry of a new item or book
Create(type, chs) ==
    /\ pc = "library"
    /\ issued_ids # Uuids
    /\ LET id == NewUuid
       IN  /\ item_dirs' =
                  InitLibrary(item_dirs) \cup
                      {[id |-> id,
                        metadata |-> [type |-> type, chapters |-> chs],
                        timing |-> Absent]}
           /\ library_index' = Append(library_index, [id |-> id, type |-> type])
           /\ issued_ids' = issued_ids \cup {id}
           /\ lib_call' = [op |-> "create", id |-> id]
    /\ UNCHANGED <<outsideLibrary, deleted_ids>>

CreateItem == Create("item", <<>>)

CreateBook == \E chs \in ChapterLists : Create("book", chs)

DeleteItem ==
    /\ pc = "library"
    /\ \E id \in ItemIds :
           IF ~ItemDirExists(item_dirs, id)
           THEN /\ lib_call' = [op |-> "delete_item", id |-> id, ret |-> FALSE]
                /\ UNCHANGED <<item_dirs, library_index, deleted_ids>>
           ELSE /\ item_dirs' = RmTree(item_dirs, id)
                /\ library_index' = WithoutItem(library_index, id)
                /\ deleted_ids' = deleted_ids \cup {id}
                /\ lib_call' = [op |-> "delete_item", id |-> id, ret |-> TRUE]
    /\ UNCHANGED <<outsideLibrary, issued_ids>>

SaveTiming ==
    /\ pc = "library"
    /\ \E id \in ItemIds :
           IF ~ItemDirExists(item_dirs, id)
           THEN /\ lib_call' = [op |-> "save_timing", id |-> id, ret |-> FALSE]
                /\ UNCHANGED item_dirs
           ELSE /\ item_dirs' =
                       (item_dirs \ {ItemDir(item_dirs, id)}) \cup
                           {[ItemDir(item_dirs, id) EXCEPT !.timing = TimingData]}
                /\ lib_call' = [op |-> "save_timing", id |-> id, ret |-> TRUE]
    /\ UNCHANGED <<outsideLibrary, library_index, issued_ids, deleted_ids>>

GetChapterText ==
    /\ pc = "library"
    /\ \E id \in ItemIds, idx \in ChapterIndexes :
           lib_call' = [op |-> "get_chapter_text", id |-> id, idx |-> idx,
                        ret |-> ChapterText(GetItem(item_dirs, id), idx),
                        before |-> <<item_dirs, library_index>>]
    /\ UNCHANGED <<outsideLibrary, item_dirs, library_index, issued_ids, deleted_ids>>

NextLibrary ==
    \/ CreateItem
    \/ CreateBook
    \/ DeleteItem
    \/ SaveTiming
    \/ GetChapterText

SpecLibrary == InitLibrarySpec /\ [][NextLibrary]_vars

(***************************************************************************)
(* text_processor.py: chunk_text                                           *)
(***************************************************************************)
MaxTextLen == 5

ChunkChars == {"a", ".", ",", " "}
ChunkTexts == SeqsUpTo(ChunkChars, MaxTextLen)
MaxCharsValues == {1, 3}

\* the ASCII characters of [.!?] and of [,;:]
SentenceEnders == {".", "!", "?"}
ClauseSeparators == {",", ";", ":"}

\* where a \s* that starts at p ends: the first index >= p that holds no
\* whitespace, Len(s) + 1 when there is none
SkipWhitespace(s, p) ==
    LET rest == {q \in p..Len(s) : s[q] \notin Whitespace}
    IN  IF rest = {} THEN Len(s) + 1 ELSE SetMin(rest)

\* re.split(r'(?<=[.!?])\s*', s): the pieces from index start on, the scan at p
RECURSIVE SplitSentences(_, _, _)
SplitSentences(s, start, p) ==
    IF p > Len(s) THEN <<SubSeq(s, start, Len(s))>>
    ELSE IF s[p] \in SentenceEnders
         THEN <<SubSeq(s, start, p)>>
                  \o SplitSentences(s, SkipWhitespace(s, p + 1),
                                    SkipWhitespace(s, p + 1))
         ELSE SplitSentences(s, start, p + 1)

\* re.split(r'[,;:]\s*', s): the pieces from index start on, the scan at p
RECURSIVE SplitClauses(_, _, _)
SplitClauses(s, start, p) ==
    IF p > Len(s) THEN <<SubSeq(s, start, Len(s))>>
    ELSE IF s[p] \in ClauseSeparators
         THEN <<SubSeq(s, start, p - 1)>>
                  \o SplitClauses(s, SkipWhitespace(s, p + 1),
                                  SkipWhitespace(s, p + 1))
         ELSE SplitClauses(s, start, p + 1)

\* each piece stripped, the empty ones skipped
StrippedPieces(pieces) ==
    LET NonEmpty(x) == x # <<>>
    IN  SelectSeq([i \in 1..Len(pieces) |-> Strip(pieces[i], Whitespace)],
                  NonEmpty)

\* what the loop packs, in order: a sentence, or the clauses of a sentence
\* longer than max_chars
RECURSIVE PackingUnits(_, _)
PackingUnits(sents, maxChars) ==
    IF sents = <<>> THEN <<>>
    ELSE (IF Len(Head(sents)) > maxChars
          THEN StrippedPieces(SplitClauses(Head(sents), 1, 1))
          ELSE <<Head(sents)>>)
             \o PackingUnits(Tail(sents), maxChars)

\* the loop: a unit joins current_chunk when it fits with a blank, else
\* current_chunk is emitted and the unit starts the next one
RECURSIVE Pack(_, _, _, _)
Pack(units, maxChars, done, current) ==
    IF units = <<>>
    THEN IF current # <<>> THEN Append(done, current) ELSE done
    ELSE IF Len(current) + Len(Head(units)) + 1 <= maxChars
         THEN Pack(Tail(units), maxChars, done,
                   IF current # <<>>
                   THEN current \o <<" ">> \o Head(units)
                   ELSE Head(units))
         ELSE Pack(Tail(units), maxChars,
                   IF current # <<>> THEN Append(done, current) ELSE done,
                   Head(units))

ChunkText(s, maxChars) ==
    Pack(PackingUnits(StrippedPieces(SplitSentences(s, 1, 1)), maxChars),
         maxChars, <<>>, <<>>)

InitChunk ==
    /\ pc = "text"
    /\ sentences = <<>>
    /\ whisper_result = <<>>
    /\ audio_duration = None
    /\ timing_sentences = <<>>
    /\ BlankTiming
    /\ BlankLibrary
    /\ text \in ChunkTexts
    /\ max_chars \in MaxCharsValues
    /\ chunks = <<>>
    /\ chapters = <<>>

\* everything outside the text processing
outsideText ==
    <<inputVars, all_words, word_idx, sent_pos, loopVars, timing_sentences,
      best_match_log, interp_input, syncVars, callVars, cursor_log, document,
      libVars>>

ChunkTextCall ==
    /\ pc = "text"
    /\ chunks' = ChunkText(text, max_chars)
    /\ pc' = "chunked"
    /\ UNCHANGED <<outsideText, text, max_chars, chapters>>

NextChunk == ChunkTextCall

SpecChunk == InitChunk /\ [][NextChunk]_vars

(***************************************************************************)
(* text_processor.py: split_into_chapters                                  *)
(***************************************************************************)
MaxMarkdownLen == 5

Newline == "\n"
MarkdownChars == {"#", " ", Newline, "a"}
MarkdownTexts == SeqsUpTo(MarkdownChars, MaxMarkdownLen)

IntroductionTitle ==
    <<"I", "n", "t", "r", "o", "d", "u", "c", "t", "i", "o", "n">>

\* where ^ matches with re.MULTILINE
LineStart(s, p) == p = 1 \/ s[p - 1] = Newline

\* the last index of the line that index t is on (t - 1 for an empty line)
LineEnd(s, t) ==
    SetMax({e \in (t - 1)..Len(s) : \A k \in t..e : s[k] # Newline})

\* the number of '#' from index p on
Hashes(s, p) ==
    Cardinality({h \in 1..(Len(s) - p + 1) :
                    \A k \in p..(p + h - 1) : s[k] = "#"})

\* where a match of ^(#{1,2}\s+.+)$ that starts at p ends, 0 when there is
\* none: one or two '#', then whitespace (newlines included) as far as a
\* character that is no newline follows, then the rest of that line
HeadingEnd(s, p) ==
    IF ~LineStart(s, p) \/ Hashes(s, p) \notin {1, 2} THEN 0
    ELSE LET ws == p + Hashes(s, p)
             textStarts ==
                 {t \in (ws + 1)..Len(s) :
                     /\ \A k \in ws..(t - 1) : s[k] \in Whitespace
                     /\ s[t] # Newline}
         IN  IF textStarts = {} THEN 0
             ELSE LineEnd(s, SetMax(textStarts))

\* re.split(heading_pattern, s, flags=re.MULTILINE): the parts from index
\* start on, the scan at p; the captured headings are every second part
RECURSIVE SplitHeadings(_, _, _)
SplitHeadings(s, start, p) ==
    IF p > Len(s) THEN <<SubSeq(s, start, Len(s))>>
    ELSE IF HeadingEnd(s, p) # 0
         THEN <<SubSeq(s, start, p - 1), SubSeq(s, p, HeadingEnd(s, p))>>
                  \o SplitHeadings(s, HeadingEnd(s, p) + 1,
                                   HeadingEnd(s, p) + 1)
         ELSE SplitHeadings(s, start, p + 1)

\* count_words of a text without CJK characters: len(text.split())
WordCount(s) ==
    Cardinality({p \in 1..Len(s) :
                    /\ s[p] \notin Whitespace
                    /\ p = 1 \/ s[p - 1] \in Whitespace})

Chapter(title, content) ==
    [title |-> title, content |-> content, word_count |-> WordCount(content)]

\* re.sub(r'^#{1,2}\s+', '', heading)
ChapterTitle(heading) ==
    LET h == Hashes(heading, 1)
    IN  IF h \in {1, 2} /\ h < Len(heading) /\ heading[h + 1] \in Whitespace
        THEN SubSeq(heading, SkipWhitespace(heading, h + 1), Len(heading))
        ELSE heading

\* the loop over the heading and content pairs
RECURSIVE HeadingChapters(_)
HeadingChapters(parts) ==
    IF parts = <<>> THEN <<>>
    ELSE LET heading == Strip(parts[1], Whitespace)
             content_after == IF Len(parts) >= 2
                              THEN Strip(parts[2], Whitespace)
                              ELSE <<>>
             full_content == IF content_after # <<>>
                             THEN heading \o <<Newline, Newline>>
                                          \o content_after
                             ELSE heading
         IN  (IF heading # <<>>
              THEN <<Chapter(ChapterTitle(heading), full_content)>>
              ELSE <<>>)
                 \o HeadingChapters(SubSeq(parts, 3, Len(parts)))

SplitIntoChapters(s) ==
    LET parts == SplitHeadings(s, 1, 1)
        intro_content == Strip(parts[1], Whitespace)
    IN  (IF intro_content # <<>>
         THEN <<Chapter(IntroductionTitle, intro_content)>>
         ELSE <<>>)
            \o HeadingChapters(Tail(parts))

InitChapters ==
    /\ pc = "markdown"
    /\ sentences = <<>>
    /\ whisper_result = <<>>
    /\ audio_duration = None
    /\ timing_sentences = <<>>
    /\ BlankTiming
    /\ BlankLibrary
    /\ text \in MarkdownTexts
    /\ max_chars = 0
    /\ chunks = <<>>
    /\ chapters = <<>>

SplitIntoChaptersCall ==
    /\ pc = "markdown"
    /\ chapters' = SplitIntoChapters(text)
    /\ pc' = "split"
    /\ UNCHANGED <<outsideText, text, max_chars, chunks>>

NextChapters == SplitIntoChaptersCall

SpecChapters == InitChapters /\ [][NextChapters]_vars

(***************************************************************************)
(* Properties of the mapper and the estimator                              *)
(***************************************************************************)
\* positions (sentence k, word i) of the sentences built so far
WordPositions(sents) ==
    UNION {{<<k, i>> : i \in 1..Len(sents[k].words)} : k \in 1..Len(sents)}

WithinAudio(w, audioDuration) ==
    /\ ~IsNone(w.start)
    /\ ~IsNone(w.end)
    /\ RLe(Zero, w.start)
    /\ RLe(w.start, w.end)
    /\ RLe(w.end, audioDuration)

\* C1: every word of the document map_words_to_sentences returns has
\* 0 <= start <= end <= audio_duration, also in sentences with no match.
C1_WordsWithinAudio ==
    pc = "mapped" =>
        \A p \in WordPositions(timing_sentences) :
            WithinAudio(timing_sentences[p[1]].words[p[2]], audio_duration)

\* C3: every emitted sentence (mapper or estimator) has one word entry per
\* token of its text, in token order, carrying the token's own string.
C3_TokensPreserved ==
    \A k \in 1..Len(timing_sentences) :
        LET sent == timing_sentences[k]
            tokens == ExtractWords(sent.text)
        IN  /\ Len(sent.words) = Len(tokens)
            /\ \A i \in 1..Len(tokens) : sent.words[i].word = tokens[i]

\* a finished mapper run with a matched word whose engine spelling differs
\* from the token, next to an unmatched word; the sentence has 3 tokens
C3_Witness ==
    /\ pc = "mapped"
    /\ \E k \in 1..Len(timing_sentences) :
           /\ Len(timing_sentences[k].words) = 3
           /\ best_match_log[k][1] # NoIndex
           /\ At(all_words, best_match_log[k][1]).word
                  # timing_sentences[k].words[1].word
           /\ best_match_log[k][2] = NoIndex

\* the (sentence, word) positions logged so far that have a match
MatchedPositions ==
    UNION {{<<k, i>> : i \in {j \in 1..Len(best_match_log[k]) :
                                 best_match_log[k][j] # NoIndex}} :
           k \in 1..Len(best_match_log)}

MatchedIdx(p) == best_match_log[p[1]][p[2]]

\* C4: no transcript index is the match of two different sentence words.
C4_NoTranscriptWordReused ==
    \A p, q \in MatchedPositions : p # q => MatchedIdx(p) # MatchedIdx(q)

\* C5: for consecutive sentences that both have matches, every index matched
\* in the later one is >= the highest index matched in the earlier one.
C5_MonotonicAcrossSentences ==
    \A p, q \in MatchedPositions :
        q[1] = p[1] + 1 => MatchedIdx(q) >= MatchedIdx(p)

\* the transcript's words have end >= start and are in non-decreasing time order
TranscriptOrdered ==
    /\ \A i \in 1..Len(whisper_result) :
           RLe(whisper_result[i].start, whisper_result[i].end)
    /\ \A i, j \in 1..Len(whisper_result) :
           i < j => RLe(whisper_result[i].end, whisper_result[j].start)

\* C10: with such a transcript every emitted SentenceTiming has end >= start.
C10_SentenceEndAfterStart ==
    (pc = "mapped" /\ TranscriptOrdered) =>
        \A k \in 1..Len(timing_sentences) :
            RLe(timing_sentences[k].start, timing_sentences[k].end)

(***************************************************************************)
(* Properties of the estimator                                             *)
(***************************************************************************)
\* number of tokens of input sentence k
TokenCount(k) == Len(ExtractWords(sentences[k].text))

\* number of tokens of the input sentences before sentence k
RECURSIVE TokensBefore(_)
TokensBefore(k) == IF k = 1 THEN 0 ELSE TokensBefore(k - 1) + TokenCount(k - 1)

\* the 60-second, 150-word example
IsEstimateExample ==
    sentences = ExampleSentences /\ audio_duration = FromInt(60)

\* C11: when create_simple_timing is given W > 0 words in total, word k
\* (0-based across all sentences) gets [k * tpw, (k + 1) * tpw] with
\* tpw = audio_duration / W; a sentence with words starts at its first
\* word's start and ends at its last word's end; consecutive sentences abut,
\* the first starts at 0 and the last ends at audio_duration; in the example
\* tpw is 0.4 and the 100-word first sentence spans [0, 40].
C11_EvenWordSlots ==
    (pc = "estimated" /\ TokensBefore(Len(sentences) + 1) > 0) =>
        LET W == TokensBefore(Len(sentences) + 1)
            tpw == RDiv(audio_duration, FromInt(W))
            out == document.sentences
            n == Len(out)
        IN  /\ n = Len(sentences)
            /\ \A k \in 1..n :
                   LET before == TokensBefore(k)
                       cnt == Len(out[k].words)
                   IN  /\ cnt = TokenCount(k)
                       /\ \A i \in 1..cnt :
                              /\ out[k].words[i].start =
                                     RMul(FromInt(before + i - 1), tpw)
                              /\ out[k].words[i].end =
                                     RMul(FromInt(before + i), tpw)
                       /\ (cnt > 0 =>
                              /\ out[k].start = out[k].words[1].start
                              /\ out[k].end = out[k].words[cnt].end)
            /\ \A k \in 1..(n - 1) : out[k].end = out[k + 1].start
            /\ out[1].start = Zero
            /\ out[n].end = audio_duration
            /\ (IsEstimateExample =>
                   /\ tpw = <<2, 5>>
                   /\ out[1].start = Zero
                   /\ out[1].end = FromInt(40))

\* the example has been estimated
C11_Witness ==
    /\ pc = "estimated"
    /\ IsEstimateExample
    /\ Len(document.sentences[1].words) = 100
    /\ Len(document.sentences[2].words) = 50

\* one of the two entry points has returned
DocumentReturned == pc \in {"mapped", "estimated"} /\ document # NoDocument

\* an empty sentence list, a zero audio duration, or no word in any sentence
Degenerate ==
    \/ sentences = <<>>
    \/ audio_duration = Zero
    \/ TokensBefore(Len(sentences) + 1) = 0

\* C12 as stated: on a degenerate input (empty sentence list, zero audio
\* duration, zero words in total) both map_words_to_sentences and
\* create_simple_timing return a document with an empty sentences list and
\* the given audio_duration.
C12_DegenerateGivesEmpty ==
    (pc \in {"mapped", "estimated"} /\ Degenerate) =>
        /\ DocumentReturned
        /\ document.sentences = <<>>
        /\ document.audio_duration = audio_duration

\* C12 amended: on a degenerate input both entry points return a document
\* with the given audio_duration; its sentences list is empty when the
\* sentence list is empty and, from create_simple_timing, when there is no
\* word in total; otherwise it has one entry per input sentence: from
\* map_words_to_sentences an entry without words for a sentence without
\* words, from create_simple_timing at zero duration entries whose times
\* are all 0.
C12_DegenerateReturns ==
    (pc \in {"mapped", "estimated"} /\ Degenerate) =>
        LET out == document.sentences
            W == TokensBefore(Len(sentences) + 1)
        IN  /\ DocumentReturned
            /\ document.audio_duration = audio_duration
            /\ (sentences = <<>> => out = <<>>)
            /\ ((pc = "estimated" /\ W = 0) => out = <<>>)
            /\ ((pc = "estimated" /\ W > 0) =>
                   /\ Len(out) = Len(sentences)
                   /\ \A k \in 1..Len(out) :
                          /\ out[k].start = Zero /\ out[k].end = Zero
                          /\ \A i \in 1..Len(out[k].words) :
                                 /\ out[k].words[i].start = Zero
                                 /\ out[k].words[i].end = Zero)
            /\ (pc = "mapped" =>
                   /\ Len(out) = Len(sentences)
                   /\ \A k \in 1..Len(out) :
                          Len(out[k].words) = TokenCount(k))

\* create_simple_timing has returned for two sentences without a word
C12_Witness ==
    /\ pc = "estimated"
    /\ Len(sentences) = 2
    /\ TokensBefore(Len(sentences) + 1) = 0
    /\ document.sentences = <<>>

(***************************************************************************)
(* Properties of the interpolation                                         *)
(***************************************************************************)
\* the interpolation has run (on its own or at the end of the mapper)
Interpolated == pc \in {"interpolated", "mapped"}

\* C2: after interpolate_missing_timestamps no word has a null start or end,
\* whatever the pattern of known and unresolved words handed in.
C2_NoNullSurvives ==
    Interpolated =>
        \A p \in WordPositions(timing_sentences) :
            /\ ~IsNone(timing_sentences[p[1]].words[p[2]].start)
            /\ ~IsNone(timing_sentences[p[1]].words[p[2]].end)

\* a sentence handed in with unresolved words before, between and after its
\* known words
C2_Witness ==
    /\ pc = "interpolated"
    /\ \E k \in 1..Len(interp_input) :
           LET ws == interp_input[k].words
           IN  /\ Len(ws) = 5
               /\ IsNone(ws[1].start) /\ ~IsNone(ws[2].start)
               /\ IsNone(ws[3].start) /\ ~IsNone(ws[4].start)
               /\ IsNone(ws[5].start)

\* the unresolved words (k, i) of the input with a known word on both sides
InteriorPositions ==
    {p \in WordPositions(interp_input) :
        LET ws == interp_input[p[1]].words
        IN  /\ IsNone(ws[p[2]].start)
            /\ \E a \in 1..(p[2] - 1) : ~IsNone(ws[a].start)
            /\ \E b \in (p[2] + 1)..Len(ws) : ~IsNone(ws[b].start)}

\* nearest known neighbours of input word p
PrevKnown(p) ==
    SetMax({a \in 1..(p[2] - 1) : ~IsNone(interp_input[p[1]].words[a].start)})
NextKnown(p) ==
    SetMin({b \in (p[2] + 1)..Len(interp_input[p[1]].words) :
               ~IsNone(interp_input[p[1]].words[b].start)})

\* (next.start - prev.end) / (next - prev)
SlotWidth(p) ==
    RDiv(RSub(interp_input[p[1]].words[NextKnown(p)].start,
              interp_input[p[1]].words[PrevKnown(p)].end),
         FromInt(NextKnown(p) - PrevKnown(p)))

\* prev.end + (offset + shift) * slot_width, offset = i - prev
SlotPoint(p, shift) ==
    RAdd(interp_input[p[1]].words[PrevKnown(p)].end,
         RMul(RAdd(FromInt(p[2] - PrevKnown(p)), shift), SlotWidth(p)))

\* the final clamp applied to a (start, end) pair
Bounded(lo, hi) ==
    LET s == IF RLt(lo, Zero) THEN Zero
             ELSE IF RLt(audio_duration, lo) THEN audio_duration ELSE lo
        e == IF RLt(audio_duration, hi) THEN audio_duration ELSE hi
    IN  <<s, IF RLt(e, s) THEN s ELSE e>>

OutSlot(p) ==
    <<timing_sentences[p[1]].words[p[2]].start,
      timing_sentences[p[1]].words[p[2]].end>>

\* the 5-word example: word 0 ends at 1.0, word 4 starts at 5.0, words 1..3
\* unresolved, and the audio is long enough for the clamp to change nothing
IsExample ==
    /\ Len(interp_input) = 1
    /\ Len(interp_input[1].words) = 5
    /\ interp_input[1].words[1].end = FromInt(1)
    /\ interp_input[1].words[5].start = FromInt(5)
    /\ \A i \in 2..4 : IsNone(interp_input[1].words[i].start)
    /\ audio_duration = FromInt(10)

\* C6 as stated: the interval is one slot wide and centred at
\* prev.end + (offset - 0.5) * slot_width; word 2 of the example gets [2, 3].
C6_CentredAtOffsetMinusHalf ==
    pc = "interpolated" =>
        /\ \A p \in InteriorPositions :
               OutSlot(p) = Bounded(SlotPoint(p, FromInt(-1)), SlotPoint(p, Zero))
        /\ (IsExample => OutSlot(<<1, 3>>) = <<FromInt(2), FromInt(3)>>)

\* C6 amended: the interval is one slot wide and STARTS at
\* prev.end + (offset - 0.5) * slot_width (its centre is prev.end +
\* offset * slot_width), then is clamped; word 2 of the example gets
\* [2.5, 3.5].
C6_StartsAtOffsetMinusHalf ==
    pc = "interpolated" =>
        /\ \A p \in InteriorPositions :
               OutSlot(p) = Bounded(SlotPoint(p, <<-1, 2>>), SlotPoint(p, Half))
        /\ (IsExample => OutSlot(<<1, 3>>) = <<<<5, 2>>, <<7, 2>>>>)

C6_Witness == pc = "interpolated" /\ IsExample

(***************************************************************************)
(* Properties of get_display_state                                         *)
(***************************************************************************)
\* get_display_state has been called on a document with sentences
Resolved == pc = "resolved" /\ timing_sentences # <<>>

Returned == display # Raised /\ display # NoDisplay

NumSentences == Len(timing_sentences)
SentAt(i) == timing_sentences[i + 1]

NoSentenceContains(t) ==
    \A i \in 0..(NumSentences - 1) :
        ~(RLe(SentAt(i).start, t) /\ RLt(t, SentAt(i).end))

\* sentence i has ended at t and sentence i+1 has not started
InGapAfter(i, t) ==
    /\ i + 1 < NumSentences
    /\ RLe(SentAt(i).end, t)
    /\ RLt(t, SentAt(i + 1).start)

\* C7: in a silent gap the next sentence is current: when no sentence
\* contains t, t is neither before the first start nor at or after the last
\* end, and i is the first index with end_i <= t < start_(i+1), the result's
\* current_sentence_index is i + 1.
C7_NextSentenceInGap ==
    Resolved =>
        \A i \in 0..(NumSentences - 1) :
            ( /\ NoSentenceContains(playback_time)
              /\ ~RLt(playback_time, SentAt(0).start)
              /\ ~RLe(SentAt(NumSentences - 1).end, playback_time)
              /\ InGapAfter(i, playback_time)
              /\ \A j \in 0..(i - 1) : ~InGapAfter(j, playback_time) )
            => (Returned /\ display.current_sentence_index = i + 1)

\* playback at 2.5 in the gap between a sentence ending at 2.0 and the next
\* one starting at 3.0
C7_Witness ==
    /\ Resolved
    /\ NumSentences = 2
    /\ SentAt(0).end = FromInt(2)
    /\ SentAt(1).start = FromInt(3)
    /\ SentAt(1).end = FromInt(4)
    /\ playback_time = <<5, 2>>
    /\ display.current_sentence_index = 1

\* C8: on a document with at least one sentence and no null timestamps,
\* get_display_state returns (does not raise) and its current_sentence_index
\* is a valid index, for every playback time.
C8_ResolverTotal ==
    Resolved =>
        /\ Returned
        /\ 0 <= display.current_sentence_index
        /\ display.current_sentence_index < NumSentences

\* a negative playback time on a document whose sentences are out of order
\* and include a reversed span
C8_Witness ==
    /\ Resolved
    /\ RLt(playback_time, Zero)
    /\ NumSentences = 2
    /\ RLt(SentAt(0).end, SentAt(0).start)
    /\ RLt(SentAt(1).start, SentAt(0).start)
    /\ Returned

InUnit(x) == RLe(Zero, x) /\ RLe(x, One)

\* C9 as stated: sentence_progress and word_progress are in [0, 1] for every
\* playback time, and total_progress is in [0, 1] for every playback time
\* not greater than audio_duration.
C9_ProgressBounds ==
    Resolved =>
        /\ Returned
        /\ InUnit(display.sentence_progress)
        /\ InUnit(display.word_progress)
        /\ (RLe(playback_time, audio_duration) => InUnit(display.total_progress))

\* C9 amended: sentence_progress and word_progress are in [0, 1] for every
\* playback time; total_progress is in [0, 1] for every playback time with
\* 0 <= playback_time <= audio_duration, and it is unclamped: negative when
\* playback_time < 0 and audio_duration > 0.
C9_ProgressBoundsFromZero ==
    Resolved =>
        /\ Returned
        /\ InUnit(display.sentence_progress)
        /\ InUnit(display.word_progress)
        /\ ((RLe(Zero, playback_time) /\ RLe(playback_time, audio_duration))
               => InUnit(display.total_progress))
        /\ ((RLt(playback_time, Zero) /\ RLt(Zero, audio_duration))
               => RLt(display.total_progress, Zero))

\* playback inside a word and a sentence, with all three fractions strictly
\* between 0 and 1
C9_Witness ==
    /\ Resolved
    /\ Returned
    /\ RLt(Zero, display.sentence_progress) /\ RLt(display.sentence_progress, One)
    /\ RLt(Zero, display.word_progress) /\ RLt(display.word_progress, One)
    /\ RLt(Zero, display.total_progress) /\ RLt(display.total_progress, One)

\* get_display_state has been called on a document without sentences
ResolvedEmpty == pc = "resolved" /\ timing_sentences = <<>>

\* the nine fields of a DisplayState
DisplayFields ==
    {"current_sentence_index", "current_word_index", "previous_sentence",
     "current_sentence", "next_sentence", "sentence_progress", "word_progress",
     "total_progress", "current_time"}

\* C13: on a document with an empty sentences list get_display_state returns,
\* for every playback time, a DisplayState with all nine fields, current_time
\* included; both indices and the three sentences are null and the three
\* progress fields are 0.
C13_EmptyDocumentAllFields ==
    ResolvedEmpty =>
        /\ Returned
        /\ DOMAIN display = DisplayFields
        /\ display.current_sentence_index = NoIndex
        /\ display.current_word_index = NoIndex
        /\ display.previous_sentence = NoSentence
        /\ display.current_sentence = NoSentence
        /\ display.next_sentence = NoSentence
        /\ display.sentence_progress = Zero
        /\ display.word_progress = Zero
        /\ display.total_progress = Zero

(***************************************************************************)
(* Properties of the mapper's search                                       *)
(***************************************************************************)
\* the (sentence, word) positions the mapper has processed so far
LoggedPositions ==
    UNION {{<<k, i>> : i \in 1..Len(cursor_log[k])} : k \in 1..Len(cursor_log)}

CursorBefore(p) == cursor_log[p[1]][p[2]][1]
CursorAfterWord(p) == cursor_log[p[1]][p[2]][2]

\* C18: word_idx never decreases during map_words_to_sentences: after every
\* processed sentence word, matched or not, it is >= its value before that
\* word.
C18_CursorNeverDecreases ==
    \A p \in LoggedPositions : CursorAfterWord(p) >= CursorBefore(p)

\* the expected word at position p
ExpectedWord(p) == ExtractWords(sentences[p[1]].text)[p[2]]

\* the transcript indices of lo..hi-1 the matcher accepts for the word at p
AcceptedIn(p, lo, hi) ==
    {j \in lo..(hi - 1) : Accepts(ExpectedWord(p), all_words, j)}

\* the least element of hits, or no index when there is none
LeastOrNone(hits) ==
    IF hits = {} THEN NoIndex ELSE CHOOSE j \in hits : \A h \in hits : j <= h

WindowStart(p) == IF CursorBefore(p) - 5 > 0 THEN CursorBefore(p) - 5 ELSE 0

\* min(len(transcript), word_idx + ahead + 10)
WindowEnd(p, ahead) ==
    IF Len(all_words) < CursorBefore(p) + ahead + 10
    THEN Len(all_words)
    ELSE CursorBefore(p) + ahead + 10

\* expected words of the sentence still to be processed, the one at p included
RemainingExpected(p) == TokenCount(p[1]) - (p[2] - 1)

\* C19 as stated: when the mapper has returned, each expected word has got the least accepted transcript index
\* of [max(0, word_idx - 5), min(len(transcript), word_idx +
\* remaining_expected + 10)), remaining_expected being the sentence's expected
\* words still to be processed, and no match exactly when that window has no
\* accepted index.
C19_WindowOfRemainingWords ==
    pc = "mapped" =>
        \A p \in LoggedPositions :
            MatchedIdx(p) =
                LeastOrNone(AcceptedIn(p, WindowStart(p),
                                       WindowEnd(p, RemainingExpected(p))))

\* C19 amended: when the mapper has returned, each expected word has got the least accepted transcript index
\* of [max(0, word_idx - 5), min(len(transcript), word_idx + len(sent_words)
\* + 10)), len(sent_words) being the number of ALL expected words of the
\* sentence, processed or not, and no match exactly when that window has no
\* accepted index.
C19_WindowOfSentenceLength ==
    pc = "mapped" =>
        \A p \in LoggedPositions :
            MatchedIdx(p) =
                LeastOrNone(AcceptedIn(p, WindowStart(p),
                                       WindowEnd(p, TokenCount(p[1]))))

\* the last word of a sentence matched at the last index of its window, after
\* an earlier word of the sentence was processed; and, in the same run, a
\* word left unmatched although the transcript has an accepted index
\* outside its window
C19_Witness ==
    /\ pc = "mapped"
    /\ \E p \in LoggedPositions :
           /\ p[2] > 1
           /\ p[2] = TokenCount(p[1])
           /\ MatchedIdx(p) = CursorBefore(p) + TokenCount(p[1]) + 10 - 1
    /\ \E p \in LoggedPositions :
           /\ MatchedIdx(p) = NoIndex
           /\ AcceptedIn(p, 0, Len(all_words)) # {}

\* no word of output sentence k matched
Unmatched(k) ==
    \A i \in 1..Len(best_match_log[k]) : best_match_log[k][i] = NoIndex

\* C20: in the document map_words_to_sentences returns, a sentence none of
\* whose words matched starts at the preceding output sentence's end (0.0 for
\* the first sentence) and ends 2.0 later, and the interpolation leaves both
\* values as the mapper set them.
C20_UnmatchedSentencePlaceholder ==
    pc = "mapped" =>
        LET out == document.sentences
        IN  \A k \in 1..Len(out) :
                Unmatched(k) =>
                    /\ out[k].start = IF k = 1 THEN Zero ELSE out[k - 1].end
                    /\ out[k].end = RAdd(out[k].start, FromInt(2))
                    /\ out[k].start = interp_input[k].start
                    /\ out[k].end = interp_input[k].end

\* a second sentence with words, none matched, after a first sentence that
\* ends later than 0
C20_Witness ==
    /\ pc = "mapped"
    /\ Len(document.sentences) = 2
    /\ ~Unmatched(1)
    /\ Unmatched(2)
    /\ TokenCount(2) > 0
    /\ RLt(Zero, document.sentences[1].end)
    /\ document.sentences[2].start = document.sentences[1].end

(***************************************************************************)
(* Properties of the library                                               *)
(***************************************************************************)
\* the ids of the items created and not deleted
LiveIds == issued_ids \ deleted_ids

\* how many entries of get_all_items have this id
TimesListed(id) ==
    Cardinality({i \in 1..Len(GetAllItems(library_index)) :
                    GetAllItems(library_index)[i].id = id})

\* C14: after any sequence of create_item, create_book and delete_item calls,
\* get_all_items lists exactly the items created and not deleted, each once,
\* and get_item is non-null exactly for those; right after delete_item(id)
\* returned True, get_item(id) is None, the index has no entry for id and
\* get_timing(id) is None.
C14_IndexMatchesItems ==
    pc = "library" =>
        /\ \A id \in ItemIds :
               /\ TimesListed(id) = IF id \in LiveIds THEN 1 ELSE 0
               /\ (GetItem(item_dirs, id) # Absent) <=> (id \in LiveIds)
        /\ ((lib_call.op = "delete_item" /\ lib_call.ret) =>
               /\ GetItem(item_dirs, lib_call.id) = Absent
               /\ TimesListed(lib_call.id) = 0
               /\ GetTiming(item_dirs, lib_call.id) = Absent)

\* the last call was get_chapter_text on an id without item, on an item that
\* is not a book, or with an index outside the book's chapters
ChapterTextUnavailable ==
    /\ lib_call.op = "get_chapter_text"
    /\ LET item == GetItem(item_dirs, lib_call.id)
       IN  \/ item = Absent
           \/ item.type # "book"
           \/ lib_call.idx < 0
           \/ lib_call.idx >= Len(item.chapters)

\* C15: get_chapter_text(book_id, chapter_idx) returns None and leaves the
\* library as it was whenever book_id names no stored item, names an item
\* that is not a book, or chapter_idx is negative or >= the chapter count.
C15_NoChapterGivesNone ==
    ChapterTextUnavailable =>
        /\ lib_call.ret = Absent
        /\ lib_call.before = <<item_dirs, library_index>>

\* index -1 asked of a stored book with two chapters, next to a stored item
\* that is not a book
C15_Witness ==
    /\ ChapterTextUnavailable
    /\ lib_call.idx = -1
    /\ GetItem(item_dirs, lib_call.id) # Absent
    /\ GetItem(item_dirs, lib_call.id).type = "book"
    /\ Len(GetItem(item_dirs, lib_call.id).chapters) = 2
    /\ \E id \in Uuids :
           /\ GetItem(item_dirs, id) # Absent
           /\ GetItem(item_dirs, id).type = "item"

(***************************************************************************)
(* Properties of the text processing                                       *)
(***************************************************************************)
\* C16: for every text and every max_chars, every chunk chunk_text returns is
\* at most max_chars long, also when one sentence, or one clause without a
\* comma, is longer than max_chars.
C16_ChunksWithinLimit ==
    pc = "chunked" =>
        \A i \in 1..Len(chunks) : Len(chunks[i]) <= max_chars

\* a line that is a level-1 or level-2 heading: one or two '#', whitespace,
\* and text, all on the line that starts at p
IsHeadingLine(s, p) ==
    /\ LineStart(s, p)
    /\ Hashes(s, p) \in {1, 2}
    /\ LineEnd(s, p) >= p + Hashes(s, p) + 1
    /\ s[p + Hashes(s, p)] \in Whitespace

\* where the heading lines start, in document order
HeadingLines(s) ==
    LET IsHeading(p) == IsHeadingLine(s, p)
    IN  SelectSeq([p \in 1..Len(s) |-> p], IsHeading)

BeginsWith(s, prefix) ==
    Len(prefix) <= Len(s) /\ SubSeq(s, 1, Len(prefix)) = prefix

\* C17: split_into_chapters returns one chapter per level-1 or level-2
\* heading line, in document order, each chapter's content beginning with its
\* heading line (a heading without body included), after one 'Introduction'
\* chapter exactly when non-blank text precedes the first heading line; a
\* line with three or more '#' starts no chapter.
C17_OneChapterPerHeadingLine ==
    pc = "split" =>
        LET lines == HeadingLines(text)
            first == IF lines = <<>> THEN Len(text) + 1 ELSE lines[1]
            intro == Strip(SubSeq(text, 1, first - 1), Whitespace) # <<>>
            off == IF intro THEN 1 ELSE 0
        IN  /\ Len(chapters) = off + Len(lines)
            /\ intro => chapters[1].title = IntroductionTitle
            /\ \A j \in 1..Len(lines) :
                   BeginsWith(chapters[off + j].content,
                              Strip(SubSeq(text, lines[j],
                                           LineEnd(text, lines[j])),
                                    Whitespace))

\* every match of the heading pattern is one heading line
HeadingsWithinOneLine ==
    \A p \in 1..Len(text) : HeadingEnd(text, p) # 0 => IsHeadingLine(text, p)

(***************************************************************************)
(* More properties of the interpolation                                    *)
(***************************************************************************)
\* the sentences handed in that have words, none of them known
AllUnresolved ==
    {k \in 1..Len(interp_input) :
        /\ Len(interp_input[k].words) >= 1
        /\ \A i \in 1..Len(interp_input[k].words) :
               IsNone(interp_input[k].words[i].start)}

\* C21: a sentence with n >= 1 words, none with known timing, comes out with
\* word k (0-based) at [start + k*d, start + (k+1)*d], d = (end - start) / n,
\* and confidence 0.5: the slots are equally wide, abut, and cover the
\* sentence span exactly.
C21_EvenSplitOfSentence ==
    pc = "interpolated" =>
        \A s \in AllUnresolved :
            LET sent == interp_input[s]
                n == Len(sent.words)
                d == RDiv(RSub(sent.end, sent.start), FromInt(n))
                out == timing_sentences[s].words
            IN  /\ \A k \in 0..(n - 1) :
                       /\ At(out, k).start =
                              RAdd(sent.start, RMul(FromInt(k), d))
                       /\ At(out, k).end =
                              RAdd(sent.start, RMul(FromInt(k + 1), d))
                       /\ At(out, k).confidence = InterpolatedConfidence
                       /\ RSub(At(out, k).end, At(out, k).start) = d
                       /\ (k + 1 < n => At(out, k).end = At(out, k + 1).start)
                /\ At(out, 0).start = sent.start
                /\ At(out, n - 1).end = sent.end

\* three unresolved words in a sentence that spans [0, 2): the middle one gets
\* [2/3, 4/3]
C21_Witness ==
    /\ pc = "interpolated"
    /\ 1 \in AllUnresolved
    /\ Len(interp_input[1].words) = 3
    /\ interp_input[1].start = Zero
    /\ interp_input[1].end = FromInt(2)
    /\ OutSlot(<<1, 2>>) = <<<<2, 3>>, <<4, 3>>>>

\* the unresolved words after the sentence's last known word, and those
\* before its first known word
TailPositions ==
    {p \in WordPositions(interp_input) :
        LET ws == interp_input[p[1]].words
        IN  /\ IsNone(ws[p[2]].start)
            /\ \E a \in 1..(p[2] - 1) : ~IsNone(ws[a].start)
            /\ \A b \in (p[2] + 1)..Len(ws) : IsNone(ws[b].start)}

HeadPositions ==
    {p \in WordPositions(interp_input) :
        LET ws == interp_input[p[1]].words
        IN  /\ IsNone(ws[p[2]].start)
            /\ \A a \in 1..(p[2] - 1) : IsNone(ws[a].start)
            /\ \E b \in (p[2] + 1)..Len(ws) : ~IsNone(ws[b].start)}

\* C22: unresolved words with a known word on one side only are placed back
\* to back against that anchor, each as long as the anchor (d): before the
\* clamp, the k-th after the last anchor spans
\* [prev.end + (k-1)*d, prev.end + k*d] and the k-th before the first anchor
\* spans [next.start - k*d, next.start - (k-1)*d].
C22_BackToBackFromAnchor ==
    pc = "interpolated" =>
        /\ \A p \in TailPositions :
               LET prev == interp_input[p[1]].words[PrevKnown(p)]
                   d == RSub(prev.end, prev.start)
                   k == p[2] - PrevKnown(p)
               IN  OutSlot(p) = Bounded(RAdd(prev.end, RMul(FromInt(k - 1), d)),
                                        RAdd(prev.end, RMul(FromInt(k), d)))
        /\ \A p \in HeadPositions :
               LET next == interp_input[p[1]].words[NextKnown(p)]
                   d == RSub(next.end, next.start)
                   k == NextKnown(p) - p[2]
               IN  OutSlot(p) = Bounded(RSub(next.start, RMul(FromInt(k), d)),
                                        RSub(next.start, RMul(FromInt(k - 1), d)))

\* two unresolved words on each side of one known word at [5, 6], in audio
\* long enough for the clamp to change nothing: [3, 4], [4, 5] before it and
\* [6, 7], [7, 8] after it
C22_Witness ==
    /\ pc = "interpolated"
    /\ Len(interp_input) = 1
    /\ Len(interp_input[1].words) = 5
    /\ KnownIndices(interp_input[1].words) = {3}
    /\ interp_input[1].words[3].start = FromInt(5)
    /\ interp_input[1].words[3].end = FromInt(6)
    /\ audio_duration = FromInt(10)
    /\ OutSlot(<<1, 1>>) = <<FromInt(3), FromInt(4)>>
    /\ OutSlot(<<1, 5>>) = <<FromInt(7), FromInt(8)>>

\* C28: when the anchors around an interior gap satisfy
\* 0 <= prev.end <= next.start <= audio_duration, every word interpolated in
\* the gap has prev.end <= start <= end <= next.start, and each one's end is
\* the next one's start.
C28_InteriorWithinGap ==
    pc = "interpolated" =>
        \A p \in InteriorPositions :
            LET prev == interp_input[p[1]].words[PrevKnown(p)]
                next == interp_input[p[1]].words[NextKnown(p)]
            IN  ( /\ RLe(Zero, prev.end)
                  /\ RLe(prev.end, next.start)
                  /\ RLe(next.start, audio_duration) )
                =>
                ( /\ RLe(prev.end, OutSlot(p)[1])
                  /\ RLe(OutSlot(p)[1], OutSlot(p)[2])
                  /\ RLe(OutSlot(p)[2], next.start)
                  /\ (p[2] + 1 < NextKnown(p) =>
                         OutSlot(p)[2] = OutSlot(<<p[1], p[2] + 1>>)[1]) )

\* two unresolved words between a word that ends at 1 and one that starts at
\* 2, in audio of 3 seconds: [7/6, 3/2] and [3/2, 11/6]
C28_Witness ==
    /\ pc = "interpolated"
    /\ Len(interp_input) = 1
    /\ Len(interp_input[1].words) = 4
    /\ KnownIndices(interp_input[1].words) = {1, 4}
    /\ interp_input[1].words[1].end = FromInt(1)
    /\ interp_input[1].words[4].start = FromInt(2)
    /\ audio_duration = FromInt(3)
    /\ OutSlot(<<1, 2>>) = <<<<7, 6>>, <<3, 2>>>>
    /\ OutSlot(<<1, 3>>) = <<<<3, 2>>, <<11, 6>>>>

(***************************************************************************)
(* More properties of get_display_state                                    *)
(***************************************************************************)
\* the sentences that contain t, by index
SentencesContaining(t) ==
    {i \in 0..(NumSentences - 1) :
        RLe(SentAt(i).start, t) /\ RLt(t, SentAt(i).end)}

\* C23: on a document with sentences the sentence is picked by precedence:
\* the lowest index with start <= t < end if there is one; otherwise 0 if t is
\* before the first start; otherwise the last index if t is at or after the
\* last end; and 0 when neither these rules nor the gap rule applies.
C23_SentencePrecedence ==
    Resolved =>
        LET t == playback_time
            inside == SentencesContaining(t)
            before == RLt(t, SentAt(0).start)
            after == RLe(SentAt(NumSentences - 1).end, t)
            gap == \E i \in 0..(NumSentences - 1) : InGapAfter(i, t)
        IN  /\ Returned
            /\ inside # {} => display.current_sentence_index = SetMin(inside)
            /\ (inside = {} /\ before) => display.current_sentence_index = 0
            /\ (inside = {} /\ ~before /\ after)
                   => display.current_sentence_index = NumSentences - 1
            /\ (inside = {} /\ ~before /\ ~after /\ ~gap)
                   => display.current_sentence_index = 0

\* playback at 1.5 inside two overlapping sentences, [0, 2) and [1, 4): the
\* first one is current
C23_Witness ==
    /\ Resolved
    /\ SentencesContaining(playback_time) = {0, 1}
    /\ Returned
    /\ display.current_sentence_index = 0

\* C24: in a resolved sentence with words, current_word_index is the first
\* word with start <= t < end if there is one; otherwise max(0, j - 1) for the
\* first word j with start > t; otherwise the last word index. word_progress
\* is (t - start) / (end - start) in the containment case with a positive
\* duration and 0 in every other case.
C24_WordPrecedence ==
    (Resolved /\ Returned) =>
        LET t == playback_time
            words == display.current_sentence.words
            n == Len(words)
            inside == {i \in 0..(n - 1) :
                          RLe(At(words, i).start, t) /\ RLt(t, At(words, i).end)}
            later == {j \in 0..(n - 1) : RLt(t, At(words, j).start)}
            first == At(words, SetMin(inside))
        IN  n >= 1 =>
            /\ inside # {} => display.current_word_index = SetMin(inside)
            /\ (inside = {} /\ later # {} /\ SetMin(later) >= 1)
                   => display.current_word_index = SetMin(later) - 1
            /\ (inside = {} /\ later # {} /\ SetMin(later) < 1)
                   => display.current_word_index = 0
            /\ (inside = {} /\ later = {}) => display.current_word_index = n - 1
            /\ (inside # {} /\ RLt(first.start, first.end))
                   => display.word_progress =
                          RDiv(RSub(t, first.start), RSub(first.end, first.start))
            /\ ~(inside # {} /\ RLt(first.start, first.end))
                   => display.word_progress = Zero

\* playback at 2.5 in a sentence whose words are at [0, 1), [1, 2) and
\* [3, 4): no word contains it, the first later word is word 2, so word 1 is
\* current with progress 0
C24_Witness ==
    /\ Resolved
    /\ Returned
    /\ playback_time = <<5, 2>>
    /\ Len(display.current_sentence.words) = 3
    /\ display.current_word_index = 1
    /\ display.word_progress = Zero

\* start_i <= end_i for every sentence and end_i <= start_(i+1) for
\* consecutive ones
WellOrdered ==
    /\ \A i \in 0..(NumSentences - 1) : RLe(SentAt(i).start, SentAt(i).end)
    /\ \A i \in 0..(NumSentences - 2) : RLe(SentAt(i).end, SentAt(i + 1).start)

\* C27: on a well ordered document of n >= 1 sentences the current sentence
\* index is the least i with t < end_i, or n - 1 when there is none, and one
\* of the rules in front of the fallback to 0 always decides.
C27_LeastUnfinishedSentence ==
    (Resolved /\ WellOrdered) =>
        LET t == playback_time
            unfinished == {i \in 0..(NumSentences - 1) : RLt(t, SentAt(i).end)}
        IN  /\ Returned
            /\ display.current_sentence_index =
                   IF unfinished # {} THEN SetMin(unfinished)
                   ELSE NumSentences - 1
            /\ \/ SentencesContaining(t) # {}
               \/ RLt(t, SentAt(0).start)
               \/ RLe(SentAt(NumSentences - 1).end, t)
               \/ \E i \in 0..(NumSentences - 1) : InGapAfter(i, t)

\* playback at 2.5 in the gap of a well ordered document, [0, 2) and [3, 4):
\* sentence 1 is the least one that has not ended
C27_Witness ==
    /\ Resolved
    /\ WellOrdered
    /\ NumSentences = 2
    /\ SentAt(0).end = FromInt(2)
    /\ SentAt(1).start = FromInt(3)
    /\ playback_time = <<5, 2>>
    /\ SentencesContaining(playback_time) = {}
    /\ display.current_sentence_index = 1
    /\ display.current_word_index = NoIndex

\* C26: the result of get_display_state does not depend on the speed and the
\* call leaves the timing document as it was: a call at the same playback
\* time as the call before it, at any speed, gives the same DisplayState on
\* the same document.
C26_SpeedIndependent ==
    (pc = "resolved" /\ earlier # NoEarlier) =>
        /\ display = earlier.display
        /\ timing_sentences = earlier.sentences
        /\ audio_duration = earlier.audio_duration

\* two calls at 1.5 inside a sentence, the second at another speed
C26_Witness ==
    /\ pc = "resolved"
    /\ earlier # NoEarlier
    /\ earlier.speed # speed
    /\ timing_sentences # <<>>
    /\ playback_time = <<3, 2>>
    /\ Returned
    /\ SentencesContaining(playback_time) # {}

\* sentence_index_to_time was given what time_to_sentence_index returned
SoughtBack ==
    /\ pc = "timed"
    /\ seek.index = position.index
    /\ seek.progress = position.progress

\* C29: for a time t inside some sentence (start <= t < end),
\* sentence_index_to_time applied to the (index, progress) that
\* time_to_sentence_index returns for t gives t back, in exact arithmetic; and
\* the progress time_to_sentence_index returns is in [0, 1] for every t.
C29_SeekRoundTrip ==
    /\ pc \in {"indexed", "timed"} => InUnit(position.progress)
    /\ (SoughtBack /\ SentencesContaining(playback_time) # {})
           => seek.time = playback_time

\* 3.5 inside the second sentence [3, 4) of a document: index 1, progress 0.5,
\* and back to 3.5
C29_Witness ==
    /\ SoughtBack
    /\ playback_time = <<7, 2>>
    /\ SentencesContaining(playback_time) = {1}
    /\ position.index = 1
    /\ position.progress = Half
    /\ seek.time = <<7, 2>>

(***************************************************************************)
(* Properties of the fallback                                              *)
(***************************************************************************)
\* the document create_simple_timing gives for the sentences and the audio
\* duration of the run, at the default speaking rate
FallbackDocument ==
    TimingDocument(audio_duration,
                   CreateSimpleTiming(sentences, audio_duration,
                                      DefaultWordsPerMinute))

====
